---------------------------- MODULE Spec2Model ----------------------------
(***************************************************************************)
(* Model of the adaptive extraction strategy selector of job-crawler       *)
(* (src/crawler.py): RoleMatcher, UrlNormalizer, the location filter, the  *)
(* search submission, the two pagination mechanisms, scrolling, the direct *)
(* scan and UniversalExtractor.extract.                                    *)
(*                                                                         *)
(* Text is modelled as a sequence of one-character strings, so that the    *)
(* substring, prefix and word-boundary tests of the source are computed    *)
(* and not assumed.  The browser page is the environment: every query of   *)
(* the page answers nondeterministically or raises.                        *)
(***************************************************************************)
EXTENDS Integers, Sequences, FiniteSets, TLC

(***************************************************************************)
(* Strings                                                                 *)
(***************************************************************************)
UpperChars == <<"A","B","C","D","E","F","G","H","I","J","K","L","M","N","O","P","Q","R","S","T","U","V","W","X","Y","Z">>

LowerChars == <<"a","b","c","d","e","f","g","h","i","j","k","l","m","n","o","p","q","r","s","t","u","v","w","x","y","z">>

DigitChars == {"0","1","2","3","4","5","6","7","8","9"}

Range(s) == {s[i] : i \in DOMAIN s}

\* str.lower() on one character
LowerChar(c) ==
    IF \E i \in 1..26 : UpperChars[i] = c
    THEN LowerChars[CHOOSE i \in 1..26 : UpperChars[i] = c]
    ELSE c

\* str.lower()
Lower(s) == [i \in DOMAIN s |-> LowerChar(s[i])]

IsSpace(c) == c \in {" ", "\t", "\n"}

\* str.strip()
Strip(s) ==
    LET keep == {i \in DOMAIN s : ~IsSpace(s[i])}
    IN  IF keep = {} THEN <<>>
        ELSE SubSeq(s, CHOOSE i \in keep : \A j \in keep : i <= j,
                       CHOOSE i \in keep : \A j \in keep : j <= i)

\* str.startswith(p)
StartsWith(s, p) == Len(p) <= Len(s) /\ SubSeq(s, 1, Len(p)) = p

\* the positions at which p occurs in s
Occurrences(s, p) ==
    {i \in 1..(Len(s) - Len(p) + 1) : SubSeq(s, i, i + Len(p) - 1) = p}

\* p in s
Contains(s, p) == Occurrences(s, p) # {}

\* the character class \w of the re module, on lower-cased text
IsWordChar(c) == c \in Range(LowerChars) \cup Range(UpperChars) \cup DigitChars \cup {"_"}

\* \b at the gap before position i of s (i in 1..Len(s)+1)
WordBoundary(s, i) ==
    LET before == i > 1 /\ IsWordChar(s[i - 1])
        after  == i <= Len(s) /\ IsWordChar(s[i])
    IN  before # after

(***************************************************************************)
(* Role matching                                                           *)
(***************************************************************************)
ROLE_WORDS == <<
    <<"e","n","g","i","n","e","e","r">>,
    <<"d","e","v","e","l","o","p","e","r">>,
    <<"p","r","o","g","r","a","m","m","e","r">>,
    <<"s","w","e">>,
    <<"s","d","e">>,
    <<"s","o","f","t","w","a","r","e"," ","e","n","g","i","n","e","e","r">>,
    <<"s","o","f","t","w","a","r","e"," ","d","e","v","e","l","o","p","e","r">> >>

DOMAIN_WORDS == <<
    <<"s","o","f","t","w","a","r","e">>,
    <<"b","a","c","k","e","n","d">>,
    <<"b","a","c","k","-","e","n","d">>,
    <<"f","u","l","l"," ","s","t","a","c","k">>,
    <<"f","u","l","l","-","s","t","a","c","k">>,
    <<"p","l","a","t","f","o","r","m">>,
    <<"s","y","s","t","e","m","s">>,
    <<"i","n","f","r","a","s","t","r","u","c","t","u","r","e">>,
    <<"c","l","o","u","d">>,
    <<"d","i","s","t","r","i","b","u","t","e","d">>,
    <<"s","e","r","v","i","c","e","s">>,
    <<".","n","e","t">>,
    <<"d","o","t","n","e","t">>,
    <<"c","#">>,
    <<"c","s","h","a","r","p">>,
    <<"a","p","i">> >>

SpecialTokens == {
    <<"c","#">>, <<".","n","e","t">>, <<"d","o","t","n","e","t">>, <<"c","s","h","a","r","p">> }

\* _has_token with every token matched as a literal substring
has_token_Substring(text, token) == Contains(Lower(text), Strip(Lower(token)))

has_token(text, token) ==
    LET t   == Lower(text)
        tok == Strip(Lower(token))
    IN  IF tok \in SpecialTokens THEN Contains(t, tok)
        ELSE IF " " \in Range(tok) \/ "-" \in Range(tok) THEN Contains(t, tok)
        ELSE \E i \in Occurrences(t, tok) :
                WordBoundary(t, i) /\ WordBoundary(t, i + Len(tok))

\* is_swe_role without the test for a domain word
is_swe_role_RoleOnly(text) ==
    IF text = <<>> THEN FALSE
    ELSE LET t == Lower(Strip(text))
         IN  IF Len(t) < 3 THEN FALSE
             ELSE \E k \in DOMAIN ROLE_WORDS : has_token(t, ROLE_WORDS[k])

is_swe_role(text) ==
    IF text = <<>> THEN FALSE
    ELSE LET t == Lower(Strip(text))
         IN  IF Len(t) < 3 THEN FALSE
             ELSE /\ \E k \in DOMAIN ROLE_WORDS : has_token(t, ROLE_WORDS[k])
                  /\ \E k \in DOMAIN DOMAIN_WORDS : has_token(t, DOMAIN_WORDS[k])

(***************************************************************************)
(* URL normalization                                                       *)
(***************************************************************************)
\* Python's None, for an href, a URL or a Signature: every real value of
\* these is a non-empty string or is tested by truthiness only
None == <<>>

\* first position of character c in s, 0 when absent
IndexOf(s, c) ==
    IF c \in Range(s) THEN CHOOSE i \in DOMAIN s : s[i] = c /\ \A j \in 1..(i - 1) : s[j] # c
    ELSE 0

\* last position of character c in s, 0 when absent
LastIndexOf(s, c) ==
    IF c \in Range(s) THEN CHOOSE i \in DOMAIN s : s[i] = c /\ \A j \in (i + 1)..Len(s) : s[j] # c
    ELSE 0

\* the position of the ":" that ends a URL scheme, 0 when s has no scheme
SchemeEnd(s) ==
    LET k == IndexOf(s, ":")
    IN  IF /\ k > 1
           /\ s[1] \in Range(LowerChars) \cup Range(UpperChars)
           /\ \A j \in 1..(k - 1) :
                s[j] \in Range(LowerChars) \cup Range(UpperChars) \cup DigitChars \cup {"+", "-", "."}
        THEN k ELSE 0

\* the exception urlsplit raises for a bracket without its partner in
\* the host ("Invalid IPv6 URL"); no string is equal to it
ValueError == <<"ValueError">>

\* the schemes of urllib.parse.uses_relative and uses_netloc that occur
\* here ("" is in both lists)
uses_relative == {<<>>, <<"h","t","t","p">>, <<"h","t","t","p","s">>, <<"f","t","p">>}

uses_netloc == {<<>>, <<"h","t","t","p">>, <<"h","t","t","p","s">>, <<"f","t","p">>}

\* first position in s of a character of cs, 0 when there is none
FindAny(s, cs) ==
    IF \E i \in DOMAIN s : s[i] \in cs
    THEN CHOOSE i \in DOMAIN s : s[i] \in cs /\ \A j \in 1..(i - 1) : s[j] \notin cs
    ELSE 0

\* urlsplit, the last step: the path and the query of what is left
SplitQuery(scheme, netloc, fragment, rest, qm) ==
    [raises   |-> ("[" \in Range(netloc)) # ("]" \in Range(netloc)),
     scheme   |-> scheme,
     netloc   |-> netloc,
     path     |-> IF qm = 0 THEN rest ELSE SubSeq(rest, 1, qm - 1),
     query    |-> IF qm = 0 THEN <<>> ELSE SubSeq(rest, qm + 1, Len(rest)),
     fragment |-> fragment]

\* urlsplit, third step: the fragment, from the first "#" (at h) on
SplitFragment(scheme, netloc, rest, h) ==
    IF h = 0 THEN SplitQuery(scheme, netloc, <<>>, rest, IndexOf(rest, "?"))
    ELSE SplitQuery(scheme, netloc, SubSeq(rest, h + 1, Len(rest)),
                    SubSeq(rest, 1, h - 1), IndexOf(SubSeq(rest, 1, h - 1), "?"))

\* urlsplit, second step: the host of "//host...", up to the first of
\* "/", "?", "#" (at cut of tail, the text after "//")
SplitNetloc(scheme, tail, cut) ==
    IF cut = 0 THEN SplitFragment(scheme, tail, <<>>, 0)
    ELSE SplitFragment(scheme, SubSeq(tail, 1, cut - 1), SubSeq(tail, cut, Len(tail)),
                       IndexOf(SubSeq(tail, cut, Len(tail)), "#"))

\* urlsplit, first step done: rest is the url after its scheme
SplitRest(scheme, rest) ==
    IF StartsWith(rest, <<"/","/">>)
    THEN SplitNetloc(scheme, SubSeq(rest, 3, Len(rest)),
                     FindAny(SubSeq(rest, 3, Len(rest)), {"/", "?", "#"}))
    ELSE SplitFragment(scheme, <<>>, rest, IndexOf(rest, "#"))

\* urllib.parse.urlsplit(url, scheme) for a url without blanks, control
\* characters and ";": the five components, and whether it raises
urlsplit(url, default_scheme) ==
    IF SchemeEnd(url) > 0
    THEN SplitRest(Lower(SubSeq(url, 1, SchemeEnd(url) - 1)),
                   SubSeq(url, SchemeEnd(url) + 1, Len(url)))
    ELSE SplitRest(default_scheme, url)

\* urlunsplit, after the host is put before the path
UnsplitRest(scheme, hier, query, fragment) ==
    (IF scheme # <<>> THEN scheme \o <<":">> ELSE <<>>) \o hier
        \o (IF query # <<>> THEN <<"?">> \o query ELSE <<>>)
        \o (IF fragment # <<>> THEN <<"#">> \o fragment ELSE <<>>)

\* urllib.parse.urlunsplit: an empty query or fragment leaves no "?" or "#"
urlunsplit(scheme, netloc, path, query, fragment) ==
    IF \/ netloc # <<>>
       \/ (scheme # <<>> /\ scheme \in uses_netloc /\ ~StartsWith(path, <<"/","/">>))
    THEN UnsplitRest(scheme,
                     <<"/","/">> \o netloc
                        \o (IF path # <<>> /\ path[1] # "/" THEN <<"/">> ELSE <<>>) \o path,
                     query, fragment)
    ELSE UnsplitRest(scheme, path, query, fragment)

\* the path of a reference merged with the path of the base (no dot
\* segments and no empty segments in either)
MergePaths(bpath, path) ==
    IF path[1] = "/" THEN path
    ELSE IF "/" \in Range(bpath) THEN SubSeq(bpath, 1, LastIndexOf(bpath, "/")) \o path
    ELSE <<"/">> \o path

\* urljoin, with base and url split into b and u
JoinParts(url, b, u) ==
    IF b.raises \/ u.raises THEN ValueError
    ELSE IF u.scheme # b.scheme \/ u.scheme \notin uses_relative THEN url
    ELSE IF u.scheme \in uses_netloc /\ u.netloc # <<>>
    THEN urlunsplit(u.scheme, u.netloc, u.path, u.query, u.fragment)
    ELSE IF u.path = <<>>
    THEN urlunsplit(u.scheme, IF u.scheme \in uses_netloc THEN b.netloc ELSE u.netloc,
                    b.path, IF u.query = <<>> THEN b.query ELSE u.query, u.fragment)
    ELSE urlunsplit(u.scheme, IF u.scheme \in uses_netloc THEN b.netloc ELSE u.netloc,
                    MergePaths(b.path, u.path), u.query, u.fragment)

\* urljoin, with base split into b
JoinBase(url, b) == JoinParts(url, b, urlsplit(url, b.scheme))

\* urllib.parse.urljoin(base, url): a url of another scheme than the base
\* comes back as it is, every other one is put together from its parts
urljoin(base, url) ==
    IF base = <<>> THEN url
    ELSE IF url = <<>> THEN base
    ELSE JoinBase(url, urlsplit(base, <<>>))

\* urldefrag of a url with a "#", split into u
DefragParts(u) ==
    IF u.raises THEN ValueError
    ELSE urlunsplit(u.scheme, u.netloc, u.path, u.query, <<>>)

\* urllib.parse.urldefrag(url)[0]: a url with a "#" is split and put
\* together without its fragment, any other url comes back as it is
urldefrag(url) ==
    IF "#" \in Range(url) THEN DefragParts(urlsplit(url, <<>>)) ELSE url

\* the url as urljoin gave it, fragment and all
Defragmented_FragmentKept(abs_url) == abs_url

\* `abs_url, _frag = urldefrag(abs_url)`, unless urljoin raised
Defragmented(abs_url) == IF abs_url = ValueError THEN ValueError ELSE urldefrag(abs_url)

normalize_href(base_url, href) ==
    IF href = <<>> THEN None
    ELSE LET h       == Strip(href)
             lowered == Lower(h)
         IN  IF StartsWith(lowered, <<"#">>) THEN None
             ELSE IF StartsWith(lowered, <<"j","a","v","a","s","c","r","i","p","t",":">>) THEN None
             ELSE IF StartsWith(lowered, <<"m","a","i","l","t","o",":">>) THEN None
             ELSE IF StartsWith(lowered, <<"t","e","l",":">>) THEN None
             ELSE Defragmented(urljoin(base_url, h))


(***************************************************************************)
(* The page: a URL and a document of anchors                               *)
(***************************************************************************)
\* an <a> element: its visible text and its href attribute (hasHref is
\* FALSE when the attribute is missing; get_attribute then gives None)
Anchor(text, href) == [text |-> text, href |-> href, hasHref |-> TRUE]

BareAnchor(text) == [text |-> text, href |-> None, hasHref |-> FALSE]

T_SoftwareEngineer == <<"S","o","f","t","w","a","r","e"," ","E","n","g","i","n","e","e","r">>

T_BackendDeveloper == <<"B","a","c","k","e","n","d"," ","D","e","v","e","l","o","p","e","r">>

T_SeniorDesigner == <<"S","e","n","i","o","r"," ","D","e","s","i","g","n","e","r">>

T_PlatformSDE == <<" ","P","l","a","t","f","o","r","m"," ","S","D","E">>

\* the documents a page can show, each a sequence of anchors in DOM order
AllDoms == <<
    \* a result list: two anchors of one posting, a non-matching title
    << Anchor(T_SoftwareEngineer, <<"/","j","o","b","/","1">>),
       Anchor(T_BackendDeveloper, <<"/","j","o","b","/","1","#","a">>),
       Anchor(T_SeniorDesigner, <<"/","j","o","b","/","2">>) >>,
    \* no role-matching anchor at all
    << Anchor(T_SeniorDesigner, <<"/","c","/","5">>),
       Anchor(<<" ">>, <<"/","c","/","6">>) >>,
    \* another result list: a posting of the first list under another
    \* title, a second posting, and an href that urljoin rejects
    << Anchor(T_PlatformSDE, <<"/","j","o","b","/","1">>),
       Anchor(T_SoftwareEngineer, <<"/","j","o","b","/","3">>),
       Anchor(T_BackendDeveloper, <<"/","/","[","/","j","o","b","/","9">>) >>,
    \* role-matching anchors that are no postings: a fragment, no href, a
    \* mailto link
    << Anchor(T_SoftwareEngineer, <<"#","t","o","p">>),
       BareAnchor(T_BackendDeveloper),
       Anchor(T_BackendDeveloper, <<"m","a","i","l","t","o",":","x">>) >>,
    \* no job-pattern href: every anchor with an href is scanned
    << Anchor(T_SoftwareEngineer, <<"#","t","o","p">>),
       BareAnchor(T_BackendDeveloper),
       Anchor(T_BackendDeveloper, <<"m","a","i","l","t","o",":","x">>),
       Anchor(T_PlatformSDE, <<"/","c","/","5">>) >>,
    \* /en/job/ anchors next to /job/ anchors
    << Anchor(T_BackendDeveloper, <<"/","j","o","b","/","2">>),
       Anchor(T_SoftwareEngineer, <<"/","e","n","/","j","o","b","/","4">>),
       Anchor(T_PlatformSDE, <<>>) >>,
    \* relative hrefs
    << Anchor(T_SoftwareEngineer, <<"j","/","j","o","b","/","3">>),
       Anchor(T_BackendDeveloper, <<"?","p","=","2">>) >>,
    \* an href that urljoin rejects, after a posting
    << Anchor(T_BackendDeveloper, <<"/","j","o","b","/","2">>),
       Anchor(T_SoftwareEngineer, <<"/","/","[","/","j","o","b","/","9">>) >> >>

AllUrls == <<
    <<"h","t","t","p","s",":","/","/","x",".","c","o","m","/","a","/">>,
    <<"h","t","t","p","s",":","/","/","x",".","c","o","m","/","b","/">>,
    <<"h","t","t","p","s",":","/","/","x",".","c","o","m","/","b","/","?","p","=","2">> >>

\* how many of AllDoms and AllUrls the environment uses
MaxDom == 3

MaxUrl == 2

DomIds == 1..MaxDom

UrlIds == 1..MaxUrl

\* a page state: page.url and the document shown
Pages == {[url |-> u, dom |-> d] : u \in UrlIds, d \in DomIds}

\* the page that stands for "not looked at" among the answers
FirstPage == [url |-> 1, dom |-> 1]

PageUrl(pg) == AllUrls[pg.url]

PageDom(pg) == AllDoms[pg.dom]

\* the members of a set of indices as an ascending sequence
RECURSIVE Ascending(_)
Ascending(S) ==
    IF S = {} THEN <<>>
    ELSE LET m == CHOOSE i \in S : \A j \in S : i <= j
         IN  <<m>> \o Ascending(S \ {m})

\* page.locator("a[href*='<pat>']"): the anchors whose href contains pat
HrefMatches(dom, pat) ==
    Ascending({i \in DOMAIN dom : dom[i].hasHref /\ Contains(dom[i].href, pat)})

\* page.locator("a[href]")
WithHref(dom) == Ascending({i \in DOMAIN dom : dom[i].hasHref})

(***************************************************************************)
(* Result signature                                                        *)
(***************************************************************************)
RECURSIVE SigScan(_, _, _)
SigScan(dom, links, i) ==
    IF i > Len(links) \/ i > 80 THEN None
    ELSE LET a   == dom[links[i]]
             txt == Strip(a.text)
         IN  IF txt # <<>> /\ is_swe_role(txt) /\ a.href # <<>>
             THEN txt \o <<":", ":">> \o a.href
             ELSE SigScan(dom, links, i + 1)

\* first_result_signature: fails is TRUE when a page query raises before
\* a signature is found; the except clause then gives None
first_result_signature(dom, fails) ==
    IF fails THEN None ELSE SigScan(dom, WithHref(dom), 1)

(***************************************************************************)
(* Direct scan                                                             *)
(***************************************************************************)
\* the locator with "/job/" as the only job pattern
ScanLinks_AnyJobPattern(dom) ==
    IF HrefMatches(dom, <<"/","j","o","b","/">>) # <<>>
    THEN HrefMatches(dom, <<"/","j","o","b","/">>)
    ELSE WithHref(dom)

\* the locator DirectExtractor scans: the first job pattern that matches
\* anything, else every anchor with an href
ScanLinks(dom) ==
    IF HrefMatches(dom, <<"/","e","n","/","j","o","b","/">>) # <<>>
    THEN HrefMatches(dom, <<"/","e","n","/","j","o","b","/">>)
    ELSE IF HrefMatches(dom, <<"/","j","o","b","/">>) # <<>>
    THEN HrefMatches(dom, <<"/","j","o","b","/">>)
    ELSE WithHref(dom)

\* the scan without `if abs_url in seen: continue`
KeepAnchor_NoSeenTest(text, href, abs_url, seen_urls) ==
    /\ text # <<>>
    /\ href # <<>>
    /\ is_swe_role(text)
    /\ abs_url # None

\* does the scan keep this anchor, given the urls already seen
KeepAnchor(text, href, abs_url, seen_urls) ==
    /\ text # <<>>
    /\ href # <<>>
    /\ is_swe_role(text)
    /\ abs_url # None
    /\ abs_url \notin seen_urls

RECURSIVE ScanLoop(_, _, _, _, _, _, _)
ScanLoop(base_url, dom, links, i, bad, seen_urls, jobs) ==
    IF i > Len(links) THEN jobs
    ELSE IF links[i] \in bad
    THEN ScanLoop(base_url, dom, links, i + 1, bad, seen_urls, jobs)
    ELSE LET a       == dom[links[i]]
             text    == Strip(a.text)
             href    == a.href
             abs_url == normalize_href(base_url, href)
         IN  IF text # <<>> /\ href # <<>> /\ is_swe_role(text) /\ abs_url = ValueError
             THEN <<>>
             ELSE IF KeepAnchor(text, href, abs_url, seen_urls)
             THEN ScanLoop(base_url, dom, links, i + 1, bad,
                           seen_urls \cup {abs_url},
                           Append(jobs, [title |-> text, url |-> abs_url]))
             ELSE ScanLoop(base_url, dom, links, i + 1, bad, seen_urls, jobs)

\* normalize_href raises in the scan of a page, for an anchor that got as
\* far as the call; the loop does not guard the call
ScanRaises(pg, bad) ==
    \E i \in DOMAIN ScanLinks(PageDom(pg)) :
        LET a == PageDom(pg)[ScanLinks(PageDom(pg))[i]]
        IN  /\ ScanLinks(PageDom(pg))[i] \notin bad
            /\ Strip(a.text) # <<>>
            /\ a.href # <<>>
            /\ is_swe_role(Strip(a.text))
            /\ normalize_href(PageUrl(pg), a.href) = ValueError

\* DirectExtractor.extract on a page; bad is the set of anchors whose text
\* or href read raises (those anchors are skipped); nothing is returned
\* when ScanRaises
DirectExtractor_extract(pg, bad) ==
    ScanLoop(PageUrl(pg), PageDom(pg), ScanLinks(PageDom(pg)), 1, bad, {}, <<>>)

\* at most this many anchor reads fail in one scan
MaxReadFail == 1

BadSets == {s : s \in {b \in SUBSET (1..4) : Cardinality(b) <= MaxReadFail}}

\* the scans and signatures of every page, computed once
ScanTable == [p \in Pages |-> [b \in BadSets |-> DirectExtractor_extract(p, b)]]

SigTable == [d \in DomIds |-> first_result_signature(AllDoms[d], FALSE)]

\* first_result_signature(page), looked up
PageSignature(pg, fails) == IF fails THEN None ELSE SigTable[pg.dom]

(***************************************************************************)
(* Answers of the page                                                     *)
(***************************************************************************)
\* what `await loc.count() > 0 and await loc.is_visible()` meets: no
\* element, count() raising, an element that is hidden, is_visible()
\* raising, a visible element
Probe == {"absent", "count_raises", "hidden", "visible_raises", "visible"}

ProbeRaises(p) == p \in {"count_raises", "visible_raises"}

(***************************************************************************)
(* Location filter                                                         *)
(***************************************************************************)
\* _try_click_apply: the Apply-style button is clicked when it is there
\* and visible; every failure is swallowed
ApplyAnswers == {"absent", "clicked", "click_raises"}

try_click_apply(apply) == IF apply = "clicked" THEN <<"apply">> ELSE <<>>

\* the answers one call of select_us_from_input meets:
\*   type  - input_locator.type succeeds, or fails and page.keyboard.type
\*           succeeds, or both raise
\*   sugg  - the suggestion list times out, shows no "United States"
\*           option, shows one, or counting the matches raises
\*   click - the click on the "United States" option succeeds
\*   enter - page.keyboard.press("Enter") succeeds
\*   apply - see ApplyAnswers
InputAnswers ==
    [type : {"ok", "keyboard", "raises"},
     sugg : {"timeout", "nomatch", "match", "count_raises"},
     click : BOOLEAN, enter : BOOLEAN, apply : ApplyAnswers]

\* _type_united_and_select_us: ret is "true", "false" or "raise"
type_united_and_select_us(a) ==
    IF a.type = "raises" THEN [ret |-> "raise", log |-> <<>>]
    ELSE IF a.sugg = "timeout" THEN [ret |-> "false", log |-> <<"type">>]
    ELSE IF a.sugg = "count_raises" THEN [ret |-> "raise", log |-> <<"type">>]
    ELSE IF a.sugg = "match"
    THEN (IF a.click THEN [ret |-> "true", log |-> <<"type", "click_us">>]
          ELSE [ret |-> "false", log |-> <<"type">>])
    ELSE [ret |-> "false", log |-> <<"type">>]

\* select_us_from_input: what one call did (log), what the suggestion list
\* showed (sugg) and its result (ret)
select_us_from_input(a) ==
    LET t == type_united_and_select_us(a)
    IN  IF t.ret = "raise" THEN [ret |-> "raise", log |-> t.log, sugg |-> a.sugg]
        ELSE IF t.ret = "true"
        THEN [ret |-> "true", log |-> t.log \o try_click_apply(a.apply), sugg |-> a.sugg]
        ELSE IF a.enter
        THEN [ret |-> "true", sugg |-> a.sugg,
              log |-> t.log \o <<"enter">> \o try_click_apply(a.apply)]
        ELSE [ret |-> "false", log |-> t.log, sugg |-> a.sugg]

\* answers that differ only where the call does not look are one case
CanonInput(a) ==
    /\ (a.type = "raises" => a.sugg = "timeout")
    /\ (a.sugg # "match" => a.click)
    /\ (type_united_and_select_us(a).ret # "false" => a.enter)
    /\ (select_us_from_input(a).ret # "true" => a.apply = "absent")

InputEnvs == {a \in InputAnswers : CanonInput(a)}

\* the number of selectors each tier tries in turn
InputSelectors == 4

WidgetSelectors == 5

SelectSelectors == 2

\* tier 0: label[for] -> input.  go is "return" when apply_location_filter
\* returns from this tier and "next" when it falls through
label_tier(label, for_id, target, a) ==
    IF label = "visible" /\ for_id = "id" /\ target = "visible"
    THEN LET c == select_us_from_input(a)
         IN  IF c.ret = "raise" THEN [go |-> "next", ret |-> "false", calls |-> <<c>>, acts |-> <<>>]
             ELSE [go |-> "return", ret |-> c.ret, calls |-> <<c>>, acts |-> <<>>]
    ELSE [go |-> "next", ret |-> "false", calls |-> <<>>, acts |-> <<>>]

\* tier 1, one selector: a visible location input
input_tier(loc, a) ==
    IF loc = "visible"
    THEN LET c == select_us_from_input(a)
         IN  IF c.ret = "raise" THEN [go |-> "next", ret |-> "false", calls |-> <<c>>, acts |-> <<>>]
             ELSE [go |-> "return", ret |-> c.ret, calls |-> <<c>>, acts |-> <<>>]
    ELSE [go |-> "next", ret |-> "false", calls |-> <<>>, acts |-> <<>>]

\* tier 2: a "United States" label of a checkbox panel.  click is whether
\* the click on the label succeeds, cb what the first checkbox answers
\* ("zero", "checked", "check_raises", "count_raises")
CheckboxAnswers == {"zero", "checked", "check_raises", "count_raises"}

checkbox_tier(checkbox_label, click, cb, apply) ==
    IF checkbox_label = "visible"
    THEN IF click
         THEN [go |-> "return", ret |-> "true", calls |-> <<>>,
               acts |-> <<"click_label">> \o try_click_apply(apply)]
         ELSE IF cb = "zero"
         THEN [go |-> "return", ret |-> "true", calls |-> <<>>,
               acts |-> try_click_apply(apply)]
         ELSE IF cb = "checked"
         THEN [go |-> "return", ret |-> "true", calls |-> <<>>,
               acts |-> <<"check_box">> \o try_click_apply(apply)]
         ELSE [go |-> "next", ret |-> "false", calls |-> <<>>, acts |-> <<>>]
    ELSE [go |-> "next", ret |-> "false", calls |-> <<>>, acts |-> <<>>]

\* tier 3, one selector: a combobox-style widget, opened by a click whose
\* failure is ignored, then the first input of the page
widget_tier(widget, click, input_box, a) ==
    LET opened == IF click THEN <<"open_widget">> ELSE <<>>
    IN  IF widget = "visible"
        THEN IF input_box = "visible"
             THEN LET c == select_us_from_input(a)
                  IN  IF c.ret = "raise"
                      THEN [go |-> "next", ret |-> "false", calls |-> <<c>>, acts |-> opened]
                      ELSE [go |-> "return", ret |-> c.ret, calls |-> <<c>>, acts |-> opened]
             ELSE [go |-> "next", ret |-> "false", calls |-> <<>>, acts |-> opened]
        ELSE [go |-> "next", ret |-> "false", calls |-> <<>>, acts |-> <<>>]

\* tier 4, one selector: a <select>; by_label and by_value are whether
\* select_option(label=...) and select_option(value=...) succeed
select_tier(box, by_label, by_value, apply) ==
    IF box = "visible"
    THEN IF by_label
         THEN [go |-> "return", ret |-> "true", calls |-> <<>>,
               acts |-> <<"select_label">> \o try_click_apply(apply)]
         ELSE IF by_value
         THEN [go |-> "return", ret |-> "true", calls |-> <<>>,
               acts |-> <<"select_value">> \o try_click_apply(apply)]
         ELSE [go |-> "return", ret |-> "false", calls |-> <<>>, acts |-> <<>>]
    ELSE [go |-> "next", ret |-> "false", calls |-> <<>>, acts |-> <<>>]

(***************************************************************************)
(* Search box and search submission                                        *)
(***************************************************************************)
SEARCH_QUERIES == <<
    <<"s","o","f","t","w","a","r","e"," ","e","n","g","i","n","e","e","r">>,
    <<"b","a","c","k","e","n","d"," ","e","n","g","i","n","e","e","r">>,
    <<"f","u","l","l"," ","s","t","a","c","k"," ","e","n","g","i","n","e","e","r">>,
    <<"p","l","a","t","f","o","r","m"," ","e","n","g","i","n","e","e","r">>,
    <<"d","o","t","n","e","t"," ","e","n","g","i","n","e","e","r">>,
    <<"c","#"," ","e","n","g","i","n","e","e","r">> >>

\* the number of selectors find_search_box tries
SearchSelectors == 5

RECURSIVE find_search_box_from(_, _)
find_search_box_from(answers, i) ==
    IF i > SearchSelectors THEN "none"
    ELSE IF ProbeRaises(answers[i]) THEN "raise"
    ELSE IF answers[i] = "visible" THEN "found"
    ELSE find_search_box_from(answers, i + 1)

\* find_search_box: "found", "none", or "raise" when count() or
\* is_visible() raises (neither is guarded)
find_search_box(answers) == find_search_box_from(answers, 1)

\* the answers of the selectors, those after the deciding one left out
SearchBoxEnvs ==
    {a \in [1..SearchSelectors -> Probe] :
        \A i \in 1..SearchSelectors :
            (\E j \in 1..(i - 1) : a[j] \notin {"absent", "hidden"}) => a[i] = "absent"}

\* re.sub(r"\s+", " ", s)
RECURSIVE CollapseSpaces(_)
CollapseSpaces(s) ==
    IF s = <<>> THEN <<>>
    ELSE IF IsSpace(s[1])
    THEN (IF Len(s) > 1 /\ IsSpace(s[2]) THEN CollapseSpaces(Tail(s))
          ELSE <<" ">> \o CollapseSpaces(Tail(s)))
    ELSE <<s[1]>> \o CollapseSpaces(Tail(s))

\* the normal form in which a suggestion is compared with the query
NormalizeText(s) == Lower(Strip(CollapseSpaces(s)))

\* the texts a suggestion can carry for a query: the query itself, the
\* query padded, capitalised and with doubled blanks, a longer phrase, a
\* shorter one
RECURSIVE DoubleSpaces(_)
DoubleSpaces(s) ==
    IF s = <<>> THEN <<>>
    ELSE (IF s[1] = " " THEN <<" ", " ">> ELSE <<s[1]>>) \o DoubleSpaces(Tail(s))

UpperChar(c) ==
    IF \E i \in 1..26 : LowerChars[i] = c
    THEN UpperChars[CHOOSE i \in 1..26 : LowerChars[i] = c]
    ELSE c

OptionKinds == {"exact", "padded", "longer", "shorter", "text_raises"}

OptionText(kind, query) ==
    CASE kind = "exact"   -> query
      [] kind = "padded"  -> <<" ", UpperChar(query[1])>> \o DoubleSpaces(Tail(query)) \o <<" ">>
      [] kind = "longer"  -> query \o <<"s">>
      [] kind = "shorter" -> SubSeq(query, 1, Len(query) - 1)
      [] OTHER            -> <<>>

\* `got == want` for a suggestion of this kind
IsExactSuggestion(kind, query) ==
    NormalizeText(Strip(OptionText(kind, query))) = NormalizeText(query)

\* the kinds of suggestion that equal each query of SEARCH_QUERIES
ExactKinds ==
    [k \in DOMAIN SEARCH_QUERIES |->
        {kind \in OptionKinds \ {"text_raises"} : IsExactSuggestion(kind, SEARCH_QUERIES[k])}]

QueryIndex(query) == CHOOSE k \in DOMAIN SEARCH_QUERIES : SEARCH_QUERIES[k] = query

\* at most this many suggestions are shown
MaxOptions == 2

OptionLists == UNION {[1..n -> OptionKinds] : n \in 0..MaxOptions}

\* the strict suggestion scan: the first suggestion whose normal form
\* equals the query's is clicked.  The result is the index clicked (0 when
\* none), or -1 when reading or clicking raises, which ends the scan
RECURSIVE SuggestionScan(_, _, _, _)
SuggestionScan(options, exact, click, i) ==
    IF i > Len(options) \/ i > 25 THEN 0
    ELSE IF options[i] = "text_raises" THEN -1
    ELSE IF options[i] \in exact
    THEN (IF click THEN i ELSE -1)
    ELSE SuggestionScan(options, exact, click, i + 1)

\* the answers one call of _type_prefix_search_and_submit meets:
\*   type    - typing the prefix: by the input, by the keyboard, or raises
\*   shown   - the suggestion list became visible within the timeout
\*   options - the suggestions shown
\*   click   - the click on a suggestion succeeds
\*   rest    - typing the rest: by the input, by the keyboard, or raises
\*   enter   - page.keyboard.press("Enter") succeeds
\*   wait    - page.wait_for_timeout(250) succeeds
SubmitAnswers ==
    [type : {"ok", "keyboard", "raises"}, shown : BOOLEAN, options : OptionLists,
     click : BOOLEAN, rest : {"ok", "keyboard", "raises"}, enter : BOOLEAN,
     wait : BOOLEAN]

\* the rest is typed and Enter pressed whether or not a suggestion was
\* clicked
SubmitByEnter_Always(clicked_suggestion) == TRUE

\* Enter is pressed only when no suggestion was clicked
SubmitByEnter(clicked_suggestion) == ~clicked_suggestion

\* _type_prefix_search_and_submit: ret is "true", "false" or "raise";
\* typed is the text typed into the input, log the clicks and key presses
\* in order, each with the text typed before it
type_prefix_search_and_submit(query, prefix_len, a) ==
    IF query = <<>> THEN [ret |-> "false", typed |-> <<>>, log |-> <<>>, clicked |-> 0]
    ELSE
    LET n       == IF prefix_len > Len(query) THEN Len(query)
                   ELSE IF prefix_len < 1 THEN 1 ELSE prefix_len
        prefix  == SubSeq(query, 1, n)
        rest    == SubSeq(query, n + 1, Len(query))
        hit     == IF a.shown THEN SuggestionScan(a.options, ExactKinds[QueryIndex(query)], a.click, 1) ELSE 0
        clicked == hit > 0
        log1    == IF clicked THEN << [ev |-> "click", typed |-> prefix, option |-> hit] >>
                   ELSE <<>>
    IN  IF a.type = "raises"
        THEN [ret |-> "false", typed |-> <<>>, log |-> <<>>, clicked |-> 0]
        ELSE IF ~SubmitByEnter(clicked)
        THEN [ret |-> IF a.wait THEN "true" ELSE "raise",
              typed |-> prefix, log |-> log1, clicked |-> hit]
        ELSE IF rest # <<>> /\ a.rest = "raises"
        THEN [ret |-> "raise", typed |-> prefix, log |-> log1, clicked |-> hit]
        ELSE IF ~a.enter
        THEN [ret |-> "false", typed |-> prefix \o rest, log |-> log1, clicked |-> hit]
        ELSE [ret |-> IF a.wait THEN "true" ELSE "raise",
              typed |-> prefix \o rest,
              log |-> log1 \o << [ev |-> "enter", typed |-> prefix \o rest, option |-> 0] >>,
              clicked |-> hit]

\* answers that differ only where the call does not look are one case
CanonSubmit(a) ==
    LET hit == IF a.shown THEN SuggestionScan(a.options, ExactKinds[1], a.click, 1) ELSE 0
        r   == type_prefix_search_and_submit(SEARCH_QUERIES[1], 4, a)
    IN  /\ (a.type = "raises" => ~a.shown /\ a.rest = "ok" /\ a.enter /\ a.wait)
        /\ (~a.shown => a.options = <<>> /\ a.click)
        /\ (a.shown /\ SuggestionScan(a.options, ExactKinds[1], TRUE, 1) <= 0 => a.click)
        /\ (hit > 0 => a.rest = "ok" /\ a.enter)
        /\ (a.rest = "raises" => a.enter /\ a.wait)
        /\ (~a.enter => a.wait)

SubmitEnvs == {a \in SubmitAnswers : CanonSubmit(a)}

\* what each query's submission can return, over every answer of the page
SubmitRets ==
    [k \in DOMAIN SEARCH_QUERIES |->
        {type_prefix_search_and_submit(SEARCH_QUERIES[k], 4, a).ret : a \in SubmitEnvs}]

(***************************************************************************)
(* Pagination                                                              *)
(***************************************************************************)
\* every Signature a page of the model can have, and None
Sigs == {s : s \in {None} \cup {SigTable[d] : d \in DomIds}}

\* has_next_button: count() is not guarded, is_visible() is
has_next_button(btn) ==
    IF btn = "count_raises" THEN [raised |-> TRUE, ret |-> FALSE]
    ELSE [raised |-> FALSE, ret |-> btn = "visible"]

\* aria-disabled as click_next reads it: no attribute, a value, or the
\* read raises
AriaAnswers == {"none", "true", "TRUE", "1", "false", "raises"}

\* str.lower() on the values of AriaAnswers
AriaLower(aria) == IF aria = "TRUE" THEN "true" ELSE aria

\* the test without lower()
AriaDisabled_ExactCase(aria) == aria \notin {"none", "raises"} /\ aria \in {"true", "1"}

\* `aria_disabled and aria_disabled.lower() in ("true", "1")`
AriaDisabled(aria) == aria \notin {"none", "raises"} /\ AriaLower(aria) \in {"true", "1"}

\* how page.wait_for_load_state("networkidle") ends: the network went
\* idle, the timeout passed, or the call failed otherwise
WaitAnswers == {"idle", "timeout", "error"}

\* an except clause that handles the timeout only
Caught_TimeoutOnly(exc) == exc = "timeout"

\* the bare `except:` of safe_networkidle handles every exception
Caught(exc) == TRUE

\* safe_networkidle: how the call ends for the caller
safe_networkidle(answer) ==
    IF answer = "idle" THEN "returned"
    ELSE IF Caught(answer) THEN "returned"
    ELSE "raised"

\* the answers one call of click_next meets: the Next control, its
\* aria-disabled attribute, whether scroll-into-view and click succeed,
\* how the wait for network idle ends, the page shown afterwards, whether
\* the Signature scan raises
ClickNextAnswers ==
    [btn : Probe, aria : AriaAnswers, click : BOOLEAN, idle : WaitAnswers, to : Pages,
     sig_fails : BOOLEAN]

\* the test that decides whether a click advanced
Advanced(old_url, new_url, prev_signature, new_sig) ==
    \/ new_url # old_url
    \/ (prev_signature # None /\ new_sig # None /\ new_sig # prev_signature)

\* click_next: (ok, sig) with the page left behind; clicked is TRUE when
\* the control was clicked
click_next(pg, prev_signature, a) ==
    IF a.btn = "count_raises"
    THEN [raised |-> TRUE, ok |-> FALSE, sig |-> prev_signature, page |-> pg, clicked |-> FALSE]
    ELSE IF a.btn # "visible"
    THEN [raised |-> FALSE, ok |-> FALSE, sig |-> prev_signature, page |-> pg, clicked |-> FALSE]
    ELSE IF a.aria # "raises" /\ AriaDisabled(a.aria)
    THEN [raised |-> FALSE, ok |-> FALSE, sig |-> prev_signature, page |-> pg, clicked |-> FALSE]
    ELSE IF ~a.click
    THEN [raised |-> FALSE, ok |-> FALSE, sig |-> prev_signature, page |-> pg, clicked |-> FALSE]
    ELSE IF safe_networkidle(a.idle) = "raised"
    THEN [raised |-> TRUE, ok |-> FALSE, sig |-> prev_signature, page |-> a.to, clicked |-> TRUE]
    ELSE LET new_sig == PageSignature(a.to, a.sig_fails)
         IN  [raised |-> FALSE,
              ok |-> Advanced(PageUrl(pg), PageUrl(a.to), prev_signature, new_sig),
              sig |-> new_sig, page |-> a.to, clicked |-> TRUE]

CanonClickNext(a) ==
    /\ (a.btn # "visible" => a.aria = "none")
    /\ (a.btn # "visible" \/ AriaDisabled(a.aria) => a.click)
    /\ (a.btn # "visible" \/ AriaDisabled(a.aria) \/ ~a.click
            => a.idle = "idle" /\ a.to = FirstPage /\ ~a.sig_fails)

ClickNextEnvs == {a \in ClickNextAnswers : CanonClickNext(a)}

ClickNextTable ==
    [p \in Pages |-> [s \in Sigs |-> {click_next(p, s, a) : a \in ClickNextEnvs}]]

\* the numbers on the links of a pagination container
MaxPageNum == 3

\* at most this many links in the container
MaxLinks == 2

\* the text of a pager element: a number, -1 for text that is not a
\* number (or no such element), -2 when reading it raises
LinkTexts == (1..MaxPageNum) \cup {-1, -2}

LinkLists == UNION {[1..n -> LinkTexts] : n \in 0..MaxLinks}

\* the answers has_numeric_pagination meets: the container (or its count
\* raising) and its links
PagerAnswers == [pager : {"absent", "present", "raises"}, links : LinkLists]

RECURSIVE AnyDigitLink(_, _)
AnyDigitLink(links, i) ==
    IF i > Len(links) \/ i > 30 THEN FALSE
    ELSE IF links[i] = -2 THEN FALSE
    ELSE IF links[i] >= 0 THEN TRUE
    ELSE AnyDigitLink(links, i + 1)

\* has_numeric_pagination: every failure gives False
has_numeric_pagination(a) ==
    IF a.pager # "present" THEN FALSE
    ELSE IF a.links = <<>> THEN FALSE
    ELSE AnyDigitLink(a.links, 1)

HasNumericOutcomes == {has_numeric_pagination(a) : a \in PagerAnswers}

\* nums of click_next_page_number: the numbered links among the first 80
RECURSIVE NumberedLinks(_, _)
NumberedLinks(links, i) ==
    IF i > Len(links) \/ i > 80 THEN <<>>
    ELSE (IF links[i] >= 0 THEN <<links[i]>> ELSE <<>>) \o NumberedLinks(links, i + 1)

\* the answers one call of click_next_page_number meets: the container,
\* the text of its aria-current element, whether links.count() succeeds,
\* the links, whether the click succeeds, the page shown afterwards,
\* whether the Signature scan raises
NumberAnswers ==
    [pager : {"absent", "present", "raises"}, cur : LinkTexts, count : BOOLEAN,
     links : LinkLists, click : BOOLEAN, to : Pages, sig_fails : BOOLEAN]

\* the target taken as the lowest number above the current one
TargetNumber_NextHigher(cur, links) ==
    LET nums        == NumberedLinks(links, 1)
        current_num == IF cur >= 0 THEN cur
                       ELSE CHOOSE m \in Range(nums) : \A k \in Range(nums) : m <= k
        higher      == {m \in Range(nums) : m > current_num}
    IN  IF nums = <<>> THEN 0
        ELSE IF higher # {} THEN CHOOSE m \in higher : \A k \in higher : m <= k
        ELSE 0

\* the page number that is clicked, 0 when there is none
TargetNumber(cur, links) ==
    LET nums        == NumberedLinks(links, 1)
        current_num == IF cur >= 0 THEN cur
                       ELSE CHOOSE m \in Range(nums) : \A k \in Range(nums) : m <= k
    IN  IF nums = <<>> THEN 0
        ELSE IF current_num + 1 \in Range(nums) THEN current_num + 1
        ELSE 0

\* click_next_page_number with `await target.click()` outside the try
click_next_page_number_UnguardedClick(pg, a) ==
    IF a.pager = "raises" \/ (a.pager = "present" /\ ~a.count)
    THEN [raised |-> TRUE, ok |-> FALSE, page |-> pg, clicked |-> 0]
    ELSE IF a.pager = "absent"
    THEN [raised |-> FALSE, ok |-> FALSE, page |-> pg, clicked |-> 0]
    ELSE IF TargetNumber(a.cur, a.links) = 0
    THEN [raised |-> FALSE, ok |-> FALSE, page |-> pg, clicked |-> 0]
    ELSE IF ~a.click
    THEN [raised |-> TRUE, ok |-> FALSE, page |-> pg, clicked |-> 0]
    ELSE [raised |-> FALSE,
          ok |-> \/ PageUrl(a.to) # PageUrl(pg)
                 \/ PageSignature(a.to, a.sig_fails) # None,
          page |-> a.to, clicked |-> TargetNumber(a.cur, a.links)]

\* click_next_page_number: pager.count() and links.count() are not guarded
click_next_page_number(pg, a) ==
    IF a.pager = "raises" \/ (a.pager = "present" /\ ~a.count)
    THEN [raised |-> TRUE, ok |-> FALSE, page |-> pg, clicked |-> 0]
    ELSE IF a.pager = "absent"
    THEN [raised |-> FALSE, ok |-> FALSE, page |-> pg, clicked |-> 0]
    ELSE IF TargetNumber(a.cur, a.links) = 0
    THEN [raised |-> FALSE, ok |-> FALSE, page |-> pg, clicked |-> 0]
    ELSE IF ~a.click
    THEN [raised |-> FALSE, ok |-> FALSE, page |-> pg, clicked |-> 0]
    ELSE [raised |-> FALSE,
          ok |-> \/ PageUrl(a.to) # PageUrl(pg)
                 \/ PageSignature(a.to, a.sig_fails) # None,
          page |-> a.to, clicked |-> TargetNumber(a.cur, a.links)]

CanonNumber(a) ==
    LET no_target == a.pager # "present" \/ ~a.count \/ TargetNumber(a.cur, a.links) = 0
    IN  /\ (a.pager # "present" => a.count)
        /\ (a.pager # "present" \/ ~a.count => a.cur = -1 /\ a.links = <<>>)
        /\ (no_target => a.click)
        /\ (no_target \/ ~a.click => a.to = FirstPage /\ ~a.sig_fails)

NumberEnvs == {a \in NumberAnswers : CanonNumber(a)}

\* what the caller of click_next_page_number can tell: its result, the
\* page left behind, whether a link was clicked
NumberOutcome(r) ==
    [raised |-> r.raised, ok |-> r.ok, page |-> r.page, clicked |-> r.clicked > 0]

ClickNumberTable ==
    [p \in Pages |-> {NumberOutcome(click_next_page_number(p, a)) : a \in NumberEnvs}]

\* the outcomes of a direct scan of a page: links.count() or
\* normalize_href raising (they are not guarded), or the jobs found with
\* some anchor reads failing
ScanOutcomes ==
    [p \in Pages |->
        {o : o \in {[raised |-> TRUE, fault |-> "count", jobs |-> <<>>]}
                  \cup {[raised |-> FALSE, fault |-> "none", jobs |-> ScanTable[p][b]] :
                            b \in {c \in BadSets : ~ScanRaises(p, c)}}
                  \cup {[raised |-> TRUE, fault |-> "normalize_href", jobs |-> <<>>] :
                            b \in {c \in BadSets : ScanRaises(p, c)}}}]

\* the Signature first_result_signature can return on a page
SigOutcomes == [p \in Pages |-> {PageSignature(p, f) : f \in BOOLEAN}]

(***************************************************************************)
(* Scrolling                                                               *)
(***************************************************************************)
\* max_rounds of scroll_full_page
MaxRounds == 25

\* the scroll heights the page reports
MaxHeight == 2

\* what one round of scroll_full_page meets: the height measured (0 when
\* evaluate raises), whether scrollTo succeeds, whether the pause succeeds
RoundAnswers == [height : 0..MaxHeight, scroll : BOOLEAN, wait : BOOLEAN]

\* one round of the loop, from last_height (0 for None): "break" ends the
\* loop, "again" goes on, "raise" is the unguarded pause raising
scroll_round(last, a) ==
    IF a.height = 0 THEN [go |-> "break", last_height |-> last, scrolled |-> FALSE]
    ELSE IF a.height = last
    THEN [go |-> "break", last_height |-> last, scrolled |-> FALSE]
    ELSE IF ~a.scroll THEN [go |-> "break", last_height |-> a.height, scrolled |-> FALSE]
    ELSE IF ~a.wait THEN [go |-> "raise", last_height |-> a.height, scrolled |-> TRUE]
    ELSE [go |-> "again", last_height |-> a.height, scrolled |-> TRUE]

CanonRound(a) ==
    /\ (a.height = 0 => a.scroll)
    /\ (~a.scroll => a.wait)

RoundEnvs == {a \in RoundAnswers : CanonRound(a)}

(***************************************************************************)
(* UniversalExtractor.extract                                              *)
(***************************************************************************)
\* `if res is not None: return res`, which returns an empty list too
ReturnsEarly_NotNone(res) == TRUE

\* `if res: return res`
ReturnsEarly(res) == res # <<>>

\* `if page_no > 10`, one page late
ReachedMaxPages_OneLate(n) == n > 10

\* `if page_no >= 10`
ReachedMaxPages(n) == n >= 10

\* the urls of a list of jobs
Urls(jobs) == {jobs[i].url : i \in DOMAIN jobs}

\* the accumulation keyed by url, a later title overwriting the first
RECURSIVE Accumulate_LastTitleWins(_, _, _)
Accumulate_LastTitleWins(results, seen_urls, batch) ==
    IF batch = <<>> THEN results
    ELSE IF batch[1].url \notin seen_urls
    THEN Accumulate_LastTitleWins(Append(results, batch[1]), seen_urls \cup {batch[1].url},
                                  Tail(batch))
    ELSE Accumulate_LastTitleWins(
             [i \in DOMAIN results |->
                 IF results[i].url = batch[1].url THEN batch[1] ELSE results[i]],
             seen_urls, Tail(batch))

\* `for j in batch: if j["url"] not in seen: ...` of SearchExtractor and
\* PaginationExtractor: the jobs of batch appended to all_results
RECURSIVE Accumulate(_, _, _)
Accumulate(results, seen_urls, batch) ==
    IF batch = <<>> THEN results
    ELSE IF batch[1].url \notin seen_urls
    THEN Accumulate(Append(results, batch[1]), seen_urls \cup {batch[1].url}, Tail(batch))
    ELSE Accumulate(results, seen_urls, Tail(batch))

(***************************************************************************)
(* State                                                                   *)
(***************************************************************************)
VARIABLES
    pc,           \* where extract is
    sel,          \* index of the selector a tier of the location filter tries
    page,         \* the page: [url, dom]
    ex,           \* the extractor whose loop runs: "search", "pagination", "none"
    q,            \* index in SEARCH_QUERIES of the phrase of the for loop
    page_no,      \* page_no of SearchExtractor.extract
    prev_sig,     \* prev_sig of the running loop
    all_results,  \* all_results (SearchExtractor), all_jobs (PaginationExtractor)
    seen,         \* seen of the running loop
    round,        \* rounds of scroll_full_page begun
    last_height,  \* last_height of scroll_full_page, 0 for None
    ret,          \* the list extract returned
    outcome,      \* "running", "returned", "raised"
    fault,        \* the page operation whose exception left extract
    ran,          \* the strategies that have returned, with their results
    probe,        \* the answers of the probes of UniversalExtractor.extract
    grew,         \* a scroll round measured a height other than the last one
    qScans,       \* pages scanned in the sub-loop of the current phrase
    qAdv,         \* advances made in the sub-loop of the current phrase
    stuck,        \* 0, or 1 + the scans made in this loop (at most 2 are
                  \* counted) since a Next click that changed neither the
                  \* URL nor the Signature, the page unchanged ever since;
                  \* 0 again once the loop is left with fewer than 2
    obs           \* what the last operation did

vars ==
    <<pc, sel, page, ex, q, page_no, prev_sig, all_results, seen, round, last_height,
      ret, outcome, fault, ran, probe, grew, qScans, qAdv, stuck, obs>>

loopVars == <<ex, q, page_no, prev_sig, all_results, seen>>

scrollVars == <<round, last_height, grew>>

histVars == <<qScans, qAdv, stuck>>

endVars == <<ret, outcome, fault>>

NoObs == [op |-> "none"]

NumQueries == Len(SEARCH_QUERIES)

Init ==
    /\ pc = "loc_label"
    /\ sel = 1
    /\ page \in Pages
    /\ ex = "none"
    /\ q = 0
    /\ page_no = 1
    /\ prev_sig = None
    /\ all_results = <<>>
    /\ seen = {}
    /\ round = 0
    /\ last_height = 0
    /\ ret = <<>>
    /\ outcome = "running"
    /\ fault = "none"
    /\ ran = <<>>
    /\ probe = [box |-> "unasked", next |-> "unasked", numeric |-> "unasked"]
    /\ grew = FALSE
    /\ qScans = 0
    /\ qAdv = 0
    /\ stuck = 0
    /\ obs = NoObs

\* an exception of a page operation that nothing catches leaves extract
Raise(op) ==
    /\ pc' = "done"
    /\ outcome' = "raised"
    /\ fault' = op
    /\ obs' = NoObs
    /\ UNCHANGED <<sel, page, loopVars, scrollVars, ret, ran, probe, histVars>>

\* a strategy returns result to UniversalExtractor.extract, which returns
\* it or goes on at next_pc; the locals of the strategy are gone
Finish(strategy, result, last, next_pc) ==
    /\ ran' = Append(ran, [strategy |-> strategy, result |-> result])
    /\ IF last \/ ReturnsEarly(result)
       THEN /\ pc' = "done"
            /\ outcome' = "returned"
            /\ ret' = result
       ELSE /\ pc' = next_pc
            /\ UNCHANGED <<ret, outcome>>
    /\ ex' = "none"
    /\ q' = 0
    /\ page_no' = 1
    /\ prev_sig' = None
    /\ all_results' = <<>>
    /\ seen' = {}
    /\ qScans' = 0
    /\ qAdv' = 0
    /\ stuck' = 0
    /\ UNCHANGED fault

(***************************************************************************)
(* apply_location_filter, tier by tier                                     *)
(***************************************************************************)
\* the tier did something to the page
Acted(t) == t.acts # <<>> \/ \E i \in DOMAIN t.calls : t.calls[i].log # <<>>

\* the tiers of this call that have found a visible candidate so far
FoundSoFar == IF obs.op = "apply_location_filter" THEN obs.found ELSE {}

\* obs is what this tier did: the calls of select_us_from_input, the other
\* clicks and selections, and what apply_location_filter returned
\* ("pending" while it goes on); found is the tiers that have found a
\* visible candidate up to and including this one (visible says whether
\* this one did).  The tier returned, or fell through to next_pc /
\* next_sel; falling off the last tier returns False
LocStep(t, visible, next_pc, next_sel) ==
    /\ obs' = [op |-> "apply_location_filter", tier |-> pc, calls |-> t.calls,
               acts |-> t.acts,
               found |-> FoundSoFar \cup (IF visible THEN {pc} ELSE {}),
               ret |-> IF t.go = "return" THEN t.ret
                       ELSE IF next_pc = "u_find_search_box" THEN "false"
                       ELSE "pending"]
    /\ page' \in (IF Acted(t) THEN Pages ELSE {page})
    /\ pc' = IF t.go = "return" THEN "u_find_search_box" ELSE next_pc
    /\ sel' = IF t.go = "return" THEN 1 ELSE next_sel
    /\ UNCHANGED <<loopVars, scrollVars, endVars, ran, probe, histVars>>

\* what one pass of each tier can do, over all answers of the page
LabelTierOutcomes ==
    {[t |-> label_tier(label, for_id, target, a),
      visible |-> (label = "visible" /\ for_id = "id" /\ target = "visible")] :
        label \in Probe, for_id \in {"none", "id", "raises"}, target \in Probe, a \in InputEnvs}

InputTierOutcomes ==
    {[t |-> input_tier(loc, a), visible |-> (loc = "visible")] : loc \in Probe, a \in InputEnvs}

CheckboxTierOutcomes ==
    {[t |-> checkbox_tier(label, click, cb, apply), visible |-> (label = "visible")] :
        label \in Probe, click \in BOOLEAN, cb \in CheckboxAnswers, apply \in ApplyAnswers}

WidgetTierOutcomes ==
    {[t |-> widget_tier(widget, click, input_box, a), visible |-> (widget = "visible")] :
        widget \in Probe, click \in BOOLEAN, input_box \in Probe, a \in InputEnvs}

SelectTierOutcomes ==
    {[t |-> select_tier(box, by_label, by_value, apply), visible |-> (box = "visible")] :
        box \in Probe, by_label \in BOOLEAN, by_value \in BOOLEAN, apply \in ApplyAnswers}

LocLabelTier ==
    /\ pc = "loc_label"
    /\ \E o \in LabelTierOutcomes : LocStep(o.t, o.visible, "loc_input", 1)

LocInputTier ==
    /\ pc = "loc_input"
    /\ \E o \in InputTierOutcomes :
         IF sel < InputSelectors
         THEN LocStep(o.t, o.visible, "loc_input", sel + 1)
         ELSE LocStep(o.t, o.visible, "loc_checkbox", 1)

LocCheckboxTier ==
    /\ pc = "loc_checkbox"
    /\ \E o \in CheckboxTierOutcomes : LocStep(o.t, o.visible, "loc_widget", 1)

LocWidgetTier ==
    /\ pc = "loc_widget"
    /\ \E o \in WidgetTierOutcomes :
         IF sel < WidgetSelectors
         THEN LocStep(o.t, o.visible, "loc_widget", sel + 1)
         ELSE LocStep(o.t, o.visible, "loc_select", 1)

LocSelectTier ==
    /\ pc = "loc_select"
    /\ \E o \in SelectTierOutcomes :
         IF sel < SelectSelectors
         THEN LocStep(o.t, o.visible, "loc_select", sel + 1)
         ELSE LocStep(o.t, o.visible, "u_find_search_box", 1)

(***************************************************************************)
(* UniversalExtractor.extract: the search probe and SearchExtractor        *)
(***************************************************************************)
\* FindSearchBox that probes for the search box only when
\* apply_location_filter returned True
FindSearchBox_OnlyWhenFiltered ==
    /\ pc = "u_find_search_box"
    /\ \E a \in SearchBoxEnvs :
         LET r == find_search_box(a)
         IN  IF obs.op = "apply_location_filter" /\ obs.ret = "false"
             THEN /\ pc' = "u_has_next"
                  /\ obs' = NoObs
                  /\ UNCHANGED <<sel, page, loopVars, scrollVars, endVars, ran, probe, histVars>>
             ELSE IF r = "raise" THEN Raise("find_search_box")
             ELSE /\ probe' = [probe EXCEPT !.box = IF r = "found" THEN "yes" ELSE "no"]
                  /\ pc' = IF r = "found" THEN "s_find_search_box" ELSE "u_has_next"
                  /\ obs' = NoObs
                  /\ UNCHANGED <<sel, page, loopVars, scrollVars, endVars, ran, histVars>>

\* `search = await self.find_search_box(page)` of UniversalExtractor
FindSearchBox ==
    /\ pc = "u_find_search_box"
    /\ \E a \in SearchBoxEnvs :
         LET r == find_search_box(a)
         IN  IF r = "raise" THEN Raise("find_search_box")
             ELSE /\ probe' = [probe EXCEPT !.box = IF r = "found" THEN "yes" ELSE "no"]
                  /\ pc' = IF r = "found" THEN "s_find_search_box" ELSE "u_has_next"
                  /\ obs' = NoObs
                  /\ UNCHANGED <<sel, page, loopVars, scrollVars, endVars, ran, histVars>>

\* SearchExtractor.extract up to its for loop: it looks for the search box
\* again and returns [] without one
SearchStart ==
    /\ pc = "s_find_search_box"
    /\ \E a \in SearchBoxEnvs :
         LET r == find_search_box(a)
         IN  IF r = "raise" THEN Raise("find_search_box")
             ELSE IF r = "none"
             THEN /\ Finish("search", <<>>, FALSE, "u_has_next")
                  /\ obs' = NoObs
                  /\ UNCHANGED <<sel, page, scrollVars, probe>>
             ELSE /\ pc' = "s_submit"
                  /\ ex' = "search"
                  /\ q' = 1
                  /\ page_no' = 1
                  /\ all_results' = <<>>
                  /\ seen' = {}
                  /\ obs' = NoObs
                  /\ UNCHANGED <<sel, page, prev_sig, scrollVars, endVars, ran, probe, histVars>>

\* one pass of `for q in SEARCH_QUERIES` up to the while loop: the phrase
\* is submitted; a failed or raising submission goes on to the next phrase
SearchSubmit ==
    /\ pc = "s_submit"
    /\ q <= NumQueries
    /\ \E r \in SubmitRets[q] :
         IF r # "true"
         THEN /\ q' = q + 1
              /\ obs' = NoObs
              /\ UNCHANGED <<pc, sel, page, ex, page_no, prev_sig, all_results, seen,
                             scrollVars, endVars, ran, probe, histVars>>
         ELSE \E wait \in BOOLEAN :
                IF ~wait THEN Raise("wait_for_timeout")
                ELSE \E to \in Pages : \E sig \in SigOutcomes[to] :
                       /\ page' = to
                       /\ prev_sig' = sig
                       /\ pc' = "scan"
                       /\ qScans' = 0
                       /\ qAdv' = 0
                       /\ stuck' = 0
                       /\ obs' = NoObs
                       /\ UNCHANGED <<sel, ex, q, page_no, all_results, seen,
                                      scrollVars, endVars, ran, probe>>

\* the for loop is over: SearchExtractor.extract returns all_results
SearchReturn ==
    /\ pc = "s_submit"
    /\ q > NumQueries
    /\ Finish("search", all_results, FALSE, "u_has_next")
    /\ obs' = NoObs
    /\ UNCHANGED <<sel, page, scrollVars, probe>>

\* the top of the while loop of SearchExtractor: scan, accumulate, and
\* stop this phrase at the page ceiling
SearchScan ==
    /\ pc = "scan"
    /\ ex = "search"
    /\ \E s \in ScanOutcomes[page] :
         IF s.raised THEN Raise(s.fault)
         ELSE /\ all_results' = Accumulate(all_results, seen, s.jobs)
              /\ seen' = seen \cup Urls(s.jobs)
              /\ qScans' = qScans + 1
              /\ IF ReachedMaxPages(page_no)
                 THEN /\ page_no' = 1
                      /\ q' = q + 1
                      /\ pc' = "s_submit"
                      /\ stuck' = IF stuck = 2 THEN 3 ELSE 0
                 ELSE /\ pc' = "has_next"
                      /\ stuck' = IF stuck \in {1, 2} THEN stuck + 1 ELSE stuck
                      /\ UNCHANGED <<page_no, q>>
              /\ obs' = NoObs
              /\ UNCHANGED <<sel, page, ex, prev_sig, scrollVars, endVars, ran, probe, qAdv>>

(***************************************************************************)
(* The pagination steps shared by SearchExtractor and PaginationExtractor  *)
(***************************************************************************)
\* `break`: the loop ends
LoopBreak ==
    /\ IF ex = "search"
       THEN pc' = "s_submit" /\ q' = q + 1
       ELSE pc' = "p_return" /\ q' = q
    /\ stuck' = 0

\* an advance after which the same iteration goes on to the numbered pages
LoopContinue_SameIteration ==
    /\ pc' = "has_numeric"
    /\ q' = q
    /\ page_no' = IF ex = "search" THEN page_no + 1 ELSE page_no
    /\ qAdv' = IF ex = "search" THEN qAdv + 1 ELSE qAdv

\* `continue` after an advance
LoopContinue ==
    /\ pc' = "scan"
    /\ q' = q
    /\ page_no' = IF ex = "search" THEN page_no + 1 ELSE page_no
    /\ qAdv' = IF ex = "search" THEN qAdv + 1 ELSE qAdv

\* the page differs from the one before the click, by URL or Signature
PageChanged(to) == to.url # page.url \/ SigTable[to.dom] # SigTable[page.dom]

\* `if await self.has_next_button(page)`
HasNextButton ==
    /\ pc = "has_next"
    /\ \E btn \in Probe :
         LET r == has_next_button(btn)
         IN  IF r.raised THEN Raise("count")
             ELSE /\ pc' = IF r.ret THEN "click_next" ELSE "has_numeric"
                  /\ obs' = NoObs
                  /\ UNCHANGED <<sel, page, loopVars, scrollVars, endVars, ran, probe, histVars>>

\* `ok, prev_sig = await self.click_next(page, prev_sig)`
ClickNext ==
    /\ pc = "click_next"
    /\ \E r \in ClickNextTable[page][prev_sig] :
         IF r.raised THEN Raise("count")
         ELSE /\ page' = r.page
              /\ prev_sig' = r.sig
              /\ IF r.ok THEN LoopContinue
                 ELSE /\ pc' = "has_numeric"
                      /\ UNCHANGED <<q, page_no, qAdv>>
              /\ stuck' = IF r.clicked /\ PageChanged(r.page) THEN 0
                          ELSE IF r.clicked /\ stuck = 0 THEN 1
                          ELSE stuck
              /\ obs' = [op |-> "advance", by |-> "click_next", ok |-> r.ok]
              /\ UNCHANGED <<sel, ex, all_results, seen, scrollVars, endVars, ran, probe, qScans>>

\* `if await self.has_numeric_pagination(page)`
HasNumericPagination ==
    /\ pc = "has_numeric"
    /\ \E r \in HasNumericOutcomes :
         /\ IF r THEN pc' = "click_number" /\ q' = q /\ stuck' = stuck ELSE LoopBreak
         /\ obs' = NoObs
         /\ UNCHANGED <<sel, page, ex, page_no, prev_sig, all_results, seen, scrollVars,
                        endVars, ran, probe, qScans, qAdv>>

\* `ok = await self.click_next_page_number(page)` and, after an advance,
\* `prev_sig = await self.first_result_signature(page)`
ClickNextPageNumber ==
    /\ pc = "click_number"
    /\ \E r \in ClickNumberTable[page] :
         IF r.raised THEN Raise("count")
         ELSE /\ page' = r.page
              /\ IF r.ok
                 THEN /\ LoopContinue
                      /\ prev_sig' \in SigOutcomes[r.page]
                      /\ stuck' = IF r.clicked /\ PageChanged(r.page) THEN 0 ELSE stuck
                 ELSE /\ LoopBreak
                      /\ UNCHANGED <<page_no, qAdv, prev_sig>>
              /\ obs' = [op |-> "advance", by |-> "click_next_page_number", ok |-> r.ok]
              /\ UNCHANGED <<sel, ex, all_results, seen, scrollVars, endVars, ran, probe, qScans>>

(***************************************************************************)
(* PaginationExtractor                                                     *)
(***************************************************************************)
\* PaginationProbe that starts PaginationExtractor whatever the probes said
PaginationProbe_Unconditional ==
    /\ pc = "u_has_next"
    /\ \E btn \in Probe :
         LET r == has_next_button(btn)
         IN  IF r.raised THEN Raise("count")
             ELSE IF r.ret
             THEN /\ probe' = [probe EXCEPT !.next = "yes"]
                  /\ pc' = "p_start"
                  /\ obs' = NoObs
                  /\ UNCHANGED <<sel, page, loopVars, scrollVars, endVars, ran, histVars>>
             ELSE \E n \in HasNumericOutcomes :
                  /\ probe' = [probe EXCEPT !.next = "no",
                                            !.numeric = IF n THEN "yes" ELSE "no"]
                  /\ pc' = "p_start"
                  /\ obs' = NoObs
                  /\ UNCHANGED <<sel, page, loopVars, scrollVars, endVars, ran, histVars>>

\* `if await self.has_next_button(page) or await
\* self.has_numeric_pagination(page)` of UniversalExtractor
PaginationProbe ==
    /\ pc = "u_has_next"
    /\ \E btn \in Probe :
         LET r == has_next_button(btn)
         IN  IF r.raised THEN Raise("count")
             ELSE IF r.ret
             THEN /\ probe' = [probe EXCEPT !.next = "yes"]
                  /\ pc' = "p_start"
                  /\ obs' = NoObs
                  /\ UNCHANGED <<sel, page, loopVars, scrollVars, endVars, ran, histVars>>
             ELSE \E n \in HasNumericOutcomes :
                  /\ probe' = [probe EXCEPT !.next = "no",
                                            !.numeric = IF n THEN "yes" ELSE "no"]
                  /\ pc' = IF n THEN "p_start" ELSE "scroll"
                  /\ obs' = NoObs
                  /\ UNCHANGED <<sel, page, loopVars, scrollVars, endVars, ran, histVars>>

\* PaginationExtractor.extract up to its while loop
PaginationStart ==
    /\ pc = "p_start"
    /\ ex' = "pagination"
    /\ all_results' = <<>>
    /\ seen' = {}
    /\ prev_sig' \in SigOutcomes[page]
    /\ pc' = "scan"
    /\ stuck' = 0
    /\ obs' = NoObs
    /\ UNCHANGED <<sel, page, q, page_no, scrollVars, endVars, ran, probe, qScans, qAdv>>

\* the top of the while loop without the scan
PaginationScan_NoScan ==
    /\ pc = "scan"
    /\ ex = "pagination"
    /\ stuck' = IF stuck \in {1, 2} THEN stuck + 1 ELSE stuck
    /\ pc' = "has_next"
    /\ obs' = NoObs
    /\ UNCHANGED <<sel, page, ex, q, page_no, prev_sig, all_results, seen, scrollVars,
                   endVars, ran, probe, qScans, qAdv>>

\* the top of the while loop of PaginationExtractor: scan and accumulate
PaginationScan ==
    /\ pc = "scan"
    /\ ex = "pagination"
    /\ \E s \in ScanOutcomes[page] :
         IF s.raised THEN Raise(s.fault)
         ELSE /\ all_results' = Accumulate(all_results, seen, s.jobs)
              /\ seen' = seen \cup Urls(s.jobs)
              /\ stuck' = IF stuck \in {1, 2} THEN stuck + 1 ELSE stuck
              /\ pc' = "has_next"
              /\ obs' = NoObs
              /\ UNCHANGED <<sel, page, ex, q, page_no, prev_sig, scrollVars, endVars,
                             ran, probe, qScans, qAdv>>

\* `return all_jobs`
PaginationReturn ==
    /\ pc = "p_return"
    /\ Finish("pagination", all_results, FALSE, "scroll")
    /\ obs' = NoObs
    /\ UNCHANGED <<sel, page, scrollVars, probe>>

(***************************************************************************)
(* ScrollExtractor and the final direct scan                               *)
(***************************************************************************)
\* one round of scroll_full_page; a scroll that worked may load anchors
ScrollRound ==
    /\ pc = "scroll"
    /\ round < MaxRounds
    /\ \E a \in RoundEnvs :
         LET r == scroll_round(last_height, a)
         IN  IF r.go = "raise" THEN Raise("wait_for_timeout")
             ELSE /\ round' = round + 1
                  /\ last_height' = r.last_height
                  /\ grew' = (grew \/ (last_height # 0 /\ r.last_height # last_height))
                  /\ pc' = IF r.go = "again" THEN "scroll" ELSE "sc_scan"
                  /\ page' \in (IF r.scrolled THEN {[page EXCEPT !.dom = d] : d \in DomIds}
                                ELSE {page})
                  /\ obs' = NoObs
                  /\ UNCHANGED <<sel, loopVars, endVars, ran, probe, histVars>>

\* `for _ in range(max_rounds)` is exhausted
ScrollEnd ==
    /\ pc = "scroll"
    /\ round >= MaxRounds
    /\ pc' = "sc_scan"
    /\ obs' = NoObs
    /\ UNCHANGED <<sel, page, loopVars, scrollVars, endVars, ran, probe, histVars>>

\* `return await DirectExtractor().extract(page, keywords)` of ScrollExtractor
ScrollScan ==
    /\ pc = "sc_scan"
    /\ \E s \in ScanOutcomes[page] :
         IF s.raised THEN Raise(s.fault)
         ELSE /\ Finish("scroll", s.jobs, FALSE, "direct")
              /\ obs' = NoObs
              /\ UNCHANGED <<sel, page, scrollVars, probe>>

\* `return await DirectExtractor().extract(page, keywords)` of UniversalExtractor
DirectScan ==
    /\ pc = "direct"
    /\ \E s \in ScanOutcomes[page] :
         IF s.raised THEN Raise(s.fault)
         ELSE /\ Finish("direct", s.jobs, TRUE, "done")
              /\ obs' = NoObs
              /\ UNCHANGED <<sel, page, scrollVars, probe>>

Next ==
    \/ LocLabelTier \/ LocInputTier \/ LocCheckboxTier \/ LocWidgetTier \/ LocSelectTier
    \/ FindSearchBox \/ SearchStart \/ SearchSubmit \/ SearchReturn \/ SearchScan
    \/ HasNextButton \/ ClickNext \/ HasNumericPagination \/ ClickNextPageNumber
    \/ PaginationProbe \/ PaginationStart \/ PaginationScan \/ PaginationReturn
    \/ ScrollRound \/ ScrollEnd \/ ScrollScan \/ DirectScan

Spec == Init /\ [][Next]_vars

(***************************************************************************)
(* The helpers on their own: one call with any arguments and any answers   *)
(* of the page                                                             *)
(***************************************************************************)
\* the variables a single call of a helper does not use
Unused ==
    /\ sel = 1
    /\ ex = "none"
    /\ q = 0
    /\ page_no = 1
    /\ all_results = <<>>
    /\ seen = {}
    /\ round = 0
    /\ last_height = 0
    /\ ret = <<>>
    /\ outcome = "running"
    /\ fault = "none"
    /\ ran = <<>>
    /\ probe = [box |-> "unasked", next |-> "unasked", numeric |-> "unasked"]
    /\ grew = FALSE
    /\ qScans = 0
    /\ qAdv = 0
    /\ stuck = 0

unusedVars ==
    <<sel, ex, q, page_no, all_results, seen, round, last_height, ret, outcome, fault,
      ran, probe, grew, qScans, qAdv, stuck>>

\* prefix_len as a caller may pass it: below 1, the 4 of SearchExtractor,
\* beyond the length of every query
PrefixLens == {0, 4, 20}

InitSubmit ==
    /\ pc = "call_submit"
    /\ page = FirstPage
    /\ prev_sig = None
    /\ obs \in {[op |-> "call", query |-> SEARCH_QUERIES[k], prefix_len |-> n, a |-> a] :
                    k \in DOMAIN SEARCH_QUERIES, n \in PrefixLens, a \in SubmitEnvs}
    /\ Unused

\* one call of _type_prefix_search_and_submit
SubmitCall ==
    /\ pc = "call_submit"
    /\ LET r == type_prefix_search_and_submit(obs.query, obs.prefix_len, obs.a)
       IN  obs' = [op |-> "type_prefix_search_and_submit", query |-> obs.query,
                   prefix_len |-> obs.prefix_len, a |-> obs.a,
                   ret |-> r.ret, typed |-> r.typed, log |-> r.log]
    /\ pc' = "called"
    /\ UNCHANGED <<page, prev_sig, unusedVars>>

NextSubmit == SubmitCall

SpecSubmit == InitSubmit /\ [][NextSubmit]_vars

InitClickNext ==
    /\ pc = "call_click_next"
    /\ page \in Pages
    /\ prev_sig \in Sigs
    /\ obs \in {[op |-> "call", a |-> a] : a \in ClickNextEnvs}
    /\ Unused

\* one call of click_next(page, prev_sig)
ClickNextCall ==
    /\ pc = "call_click_next"
    /\ LET r == click_next(page, prev_sig, obs.a)
       IN  /\ obs' = [op |-> "click_next", old_url |-> PageUrl(page),
                      prev_signature |-> prev_sig, raised |-> r.raised, ok |-> r.ok,
                      sig |-> r.sig, clicked |-> r.clicked, a |-> obs.a,
                      new_url |-> PageUrl(r.page)]
           /\ page' = r.page
           /\ prev_sig' = r.sig
    /\ pc' = "called"
    /\ UNCHANGED unusedVars

NextClickNext == ClickNextCall

SpecClickNext == InitClickNext /\ [][NextClickNext]_vars

\* link texts is_swe_role is called with
RoleTexts == {
    <<"S","o","f","t","w","a","r","e"," ","E","n","g","i","n","e","e","r">>,
    <<"C","#"," ","D","e","v","e","l","o","p","e","r">>,
    <<"P","l","a","t","f","o","r","m"," ","S","D","E">>,
    <<"S","e","n","i","o","r"," ","D","e","s","i","g","n","e","r">>,
    <<"e","n","g","i","n","e","e","r","i","n","g"," ","m","a","n","a","g","e","r">>,
    <<>>,
    <<" ">>,
    <<"s","e">>,
    <<"c","#">>,
    <<"s","d","e">>,
    <<"E","n","g","i","n","e","e","r">>,
    <<"s","o","f","t","w","a","r","e">>,
    <<"S","O","F","T","W","A","R","E","-","E","N","G","I","N","E","E","R">>,
    <<"s","o","f","t","w","a","r","e","e","n","g","i","n","e","e","r">>,
    <<"S","o","f","t","w","a","r","e"," "," ","E","n","g","i","n","e","e","r">>,
    <<"B","a","c","k","e","n","d"," ","D","e","v","e","l","o","p","e","r","s">>,
    <<"B","a","c","k","-","E","n","d"," ","D","e","v","e","l","o","p","e","r">>,
    <<"f","u","l","l"," ","s","t","a","c","k"," ","s","w","e">>,
    <<"F","u","l","l","-","S","t","a","c","k"," ","P","r","o","g","r","a","m","m","e","r">>,
    <<".","N","E","T"," ","d","e","v","e","l","o","p","e","r">>,
    <<"d","o","t","n","e","t","d","e","v","e","l","o","p","e","r">>,
    <<"d","o","t","n","e","t"," ","s","d","e">>,
    <<"c","s","h","a","r","p"," ","e","n","g","i","n","e","e","r">>,
    <<"A","P","I"," ","e","n","g","i","n","e","e","r">>,
    <<"r","a","p","i","d"," ","e","n","g","i","n","e","e","r">>,
    <<"s","d","e","_","p","l","a","t","f","o","r","m">>,
    <<"\t","S","D","E"," ","c","l","o","u","d","\n">>,
    <<"S","W","E","/","s","e","r","v","i","c","e","s">>,
    <<"c","l","o","u","d"," ","e","n","g","i","n","e","e","r","2">>,
    <<"S","y","s","t","e","m","s"," ","E","n","g","i","n","e","e","r"," ","I","I">>,
    <<"i","n","f","r","a","s","t","r","u","c","t","u","r","e">>,
    <<"d","i","s","t","r","i","b","u","t","e","d"," ","p","r","o","g","r","a","m","m","e","r","s">>,
    <<"S","o","f","t","w","a","r","e"," ","D","e","v","e","l","o","p","e","r">> }

RoleTokens == Range(ROLE_WORDS) \cup Range(DOMAIN_WORDS)

InitRole ==
    /\ pc = "call_is_swe_role"
    /\ page = FirstPage
    /\ prev_sig = None
    /\ obs \in {[op |-> "call", text |-> x, token |-> w] : x \in RoleTexts, w \in RoleTokens}
    /\ Unused

\* one call of is_swe_role(text), and of _has_token(text, token)
RoleCall ==
    /\ pc = "call_is_swe_role"
    /\ obs' = [op |-> "is_swe_role", text |-> obs.text, token |-> obs.token,
               has |-> has_token(obs.text, obs.token), is_swe |-> is_swe_role(obs.text)]
    /\ pc' = "called"
    /\ UNCHANGED <<page, prev_sig, unusedVars>>

NextRole == RoleCall

SpecRole == InitRole /\ [][NextRole]_vars

\* href attributes normalize_href is called with (None is the missing
\* attribute)
Hrefs == {
    <<>>,
    <<" "," ">>,
    <<"#","t","o","p">>,
    <<" ","#","t","o","p">>,
    <<"J","a","v","a","S","c","r","i","p","t",":","v","o","i","d","(","0",")">>,
    <<"m","a","i","l","t","o",":","a","@","x",".","c","o","m">>,
    <<"M","A","I","L","T","O",":","a","@","x",".","c","o","m">>,
    <<"t","e","l",":","1","2","3">>,
    <<" ","T","e","l",":","1","2","3"," ">>,
    <<"/","j","o","b","/","1">>,
    <<"/","j","o","b","/","1","#","a">>,
    <<"j","o","b","/","3">>,
    <<"?","p","=","2">>,
    <<"?">>,
    <<"h","t","t","p","s",":","/","/","x",".","c","o","m","/","j","o","b","/","1">>,
    <<"h","t","t","p",":","/","/","x",".","c","o","m","/","a","?">>,
    <<"h","t","t","p","s",":","/","/","x",".","c","o","m","/","a","?">>,
    <<"H","T","T","P","S",":","/","/","X",".","c","o","m","/","A">>,
    <<"/","/","x",".","c","o","m","/","p">>,
    <<"h","t","t","p",":","/","/","[","a","b","c">>,
    <<"/","j","o","b","/","1","?">>,
    <<"f","t","p",":","/","/","f",".","c","o","m","/","x","#","y">>,
    <<"a","b","o","u","t",":","b","l","a","n","k">>,
    <<"j","a","v","a","s","c","r","i","p","t">>,
    <<"h","t","t","p",":","/","/","x",".","c","o","m","/","a","?","#","f">> }

\* URLs of the page that holds the anchor
HrefBases == {
    <<"h","t","t","p","s",":","/","/","x",".","c","o","m","/","a","/">>,
    <<"h","t","t","p",":","/","/","y",".","c","o","m","/","z","/","q">>,
    <<"h","t","t","p","s",":","/","/","x",".","c","o","m","/","b","/","?","p","=","2">> }

InitHref ==
    /\ pc = "call_normalize_href"
    /\ page = FirstPage
    /\ prev_sig = None
    /\ obs \in {[op |-> "call", base_url |-> b, href |-> h, again_base |-> c] :
                    b \in HrefBases, h \in Hrefs, c \in HrefBases}
    /\ Unused

\* one call of normalize_href(base_url, href), and a second call on its
\* result with the base again_base
HrefCall ==
    /\ pc = "call_normalize_href"
    /\ LET r == normalize_href(obs.base_url, obs.href)
       IN  obs' = [op |-> "normalize_href", base_url |-> obs.base_url, href |-> obs.href,
                   again_base |-> obs.again_base, ret |-> r,
                   again |-> IF r \in {None, ValueError} THEN r
                             ELSE normalize_href(obs.again_base, r)]
    /\ pc' = "called"
    /\ UNCHANGED <<page, prev_sig, unusedVars>>

NextHref == HrefCall

SpecHref == InitHref /\ [][NextHref]_vars

InitClickNumber ==
    /\ pc = "call_click_number"
    /\ page \in Pages
    /\ prev_sig = None
    /\ obs \in {[op |-> "call", a |-> a] : a \in NumberEnvs}
    /\ Unused

\* one call of click_next_page_number(page); old_sig and new_sig are the
\* Signatures of the page before and after the call
ClickNumberCall ==
    /\ pc = "call_click_number"
    /\ LET r == click_next_page_number(page, obs.a)
       IN  /\ obs' = [op |-> "click_next_page_number", old_url |-> PageUrl(page),
                      old_sig |-> PageSignature(page, FALSE), raised |-> r.raised,
                      ok |-> r.ok, clicked |-> r.clicked, a |-> obs.a,
                      new_url |-> PageUrl(r.page),
                      new_sig |-> PageSignature(r.page, FALSE)]
           /\ page' = r.page
    /\ pc' = "called"
    /\ UNCHANGED <<prev_sig, unusedVars>>

\* either way of going to the next page, called once
InitPaging == InitClickNext \/ InitClickNumber

NextPaging == ClickNextCall \/ ClickNumberCall

SpecPaging == InitPaging /\ [][NextPaging]_vars

\* DirectExtractor.extract on its own: every document at every URL, with
\* any anchor reads failing
ScanPages == {[url |-> u, dom |-> d] : u \in DOMAIN AllUrls, d \in DOMAIN AllDoms}

InitScan ==
    /\ pc = "call_scan"
    /\ page \in ScanPages
    /\ prev_sig = None
    /\ obs \in {[op |-> "call", bad |-> b] : b \in BadSets}
    /\ Unused

\* one call of DirectExtractor().extract(page, keywords)
ScanCall ==
    /\ pc = "call_scan"
    /\ obs' = [op |-> "DirectExtractor.extract", bad |-> obs.bad,
               raised |-> ScanRaises(page, obs.bad),
               jobs |-> DirectExtractor_extract(page, obs.bad)]
    /\ pc' = "called"
    /\ UNCHANGED <<page, prev_sig, unusedVars>>

NextScan == ScanCall

SpecScan == InitScan /\ [][NextScan]_vars

(***************************************************************************)
(* The engine package: engine/utils.py, engine/extractors                  *)
(***************************************************************************)

\* ROLE_KEYWORDS of engine/utils.py
engine_ROLE_KEYWORDS == <<
    <<"s","o","f","t","w","a","r","e"," ","e","n","g","i","n","e","e","r">>,
    <<"s","o","f","t","w","a","r","e"," ","d","e","v","e","l","o","p","e","r">>,
    <<"s","w","e">>,
    <<"s","d","e">>,
    <<"f","u","l","l"," ","s","t","a","c","k">>,
    <<"b","a","c","k","e","n","d"," ","e","n","g","i","n","e","e","r">>,
    <<"s","o","f","t","w","a","r","e">>,
    <<"d","e","v","e","l","o","p","e","r">>,
    <<"e","n","g","i","n","e","e","r">> >>

\* is_role_match(text): some keyword is a substring of the lowered text
engine_is_role_match(text) ==
    /\ text # <<>>
    /\ \E k \in DOMAIN engine_ROLE_KEYWORDS : Contains(Lower(text), engine_ROLE_KEYWORDS[k])

\* the for loop of the engine's DirectExtractor.extract over page.locator("a"):
\* the stripped text and the raw href of every anchor whose text matches
RECURSIVE engine_DirectLoop(_, _, _)
engine_DirectLoop(dom, i, results) ==
    IF i > Len(dom) THEN results
    ELSE LET text == Strip(dom[i].text)
             href == dom[i].href
         IN engine_DirectLoop(dom, i + 1,
                IF text # <<>> /\ dom[i].hasHref /\ href # <<>> /\ engine_is_role_match(text)
                THEN Append(results, [title |-> text, url |-> href])
                ELSE results)

\* the engine's DirectExtractor().extract(page) on every document
engine_DirectTable == [d \in DomIds |-> engine_DirectLoop(AllDoms[d], 1, <<>>)]

engine_DirectExtractor_extract(pg) == engine_DirectTable[pg.dom]

\* the lists the engine's SearchExtractor().extract(page) can return: the
\* postings of a result page, or none
engine_SearchResults == {r : r \in {<<>>} \cup {engine_DirectTable[d] : d \in DomIds}}

\* the Next clicks of the engine's PaginationExtractor.extract that are followed
MaxEngineClicks == 2

\* what LocationDetector.detect and RoleDetector.detect can answer
engine_LocationTypes == {"None", "input", "react", "dropdown"}

engine_RoleTypes == {"None", "input", "search"}

\* the engine's UniversalExtractor.extract is entered on the loaded page
InitEngine ==
    /\ pc = "e_location"
    /\ page \in Pages
    /\ prev_sig = None
    /\ obs = [op |-> "call"]
    /\ Unused

\* an awaited page operation raised: nothing in the engine catches it
engine_Raise(op) ==
    /\ pc' = "done"
    /\ outcome' = "raised"
    /\ fault' = op
    /\ obs' = [op |-> op]
    /\ UNCHANGED <<page, ret, ran, probe, all_results, qScans, qAdv, stuck>>

\* a strategy returned result and extract returns it
engine_Return(strategy, result, pg) ==
    /\ pc' = "done"
    /\ outcome' = "returned"
    /\ ret' = result
    /\ ran' = Append(ran, [strategy |-> strategy, result |-> result])
    /\ page' = pg
    /\ obs' = [op |-> strategy]
    /\ UNCHANGED <<fault, probe, all_results, qScans, qAdv, stuck>>

\* loc_type, loc_el = await LocationDetector.detect(page), and
\* LocationHandler().apply when a control was found
EngineLocation ==
    /\ pc = "e_location"
    /\ \E t \in engine_LocationTypes, p \in Pages, raises \in BOOLEAN :
          IF raises THEN engine_Raise("LocationHandler.apply")
          ELSE /\ pc' = "e_role"
               /\ page' = IF t = "None" THEN page ELSE p
               /\ obs' = [op |-> "LocationHandler.apply", type |-> t]
               /\ UNCHANGED <<ret, outcome, fault, ran, probe, all_results, qScans, qAdv, stuck>>
    /\ UNCHANGED <<sel, ex, q, page_no, prev_sig, seen, round, last_height, grew>>

\* r_type, r_el = await RoleDetector.detect(page), and RoleHandler().apply
\* when a control was found
EngineRole ==
    /\ pc = "e_role"
    /\ \E t \in engine_RoleTypes, p \in Pages, raises \in BOOLEAN :
          IF raises THEN engine_Raise("RoleHandler.apply")
          ELSE /\ pc' = "e_search_box"
               /\ page' = IF t = "None" THEN page ELSE p
               /\ obs' = [op |-> "RoleHandler.apply", type |-> t]
               /\ UNCHANGED <<ret, outcome, fault, ran, probe, all_results, qScans, qAdv, stuck>>
    /\ UNCHANGED <<sel, ex, q, page_no, prev_sig, seen, round, last_height, grew>>

\* search_box = await SearchBoxDetector.detect(page)
EngineSearchBox ==
    /\ pc = "e_search_box"
    /\ \E found \in BOOLEAN, raises \in BOOLEAN :
          IF raises THEN engine_Raise("SearchBoxDetector.detect")
          ELSE /\ pc' = IF found THEN "e_search" ELSE "e_next"
               /\ probe' = [probe EXCEPT !.box = IF found THEN "found" ELSE "none"]
               /\ obs' = [op |-> "SearchBoxDetector.detect"]
               /\ UNCHANGED <<page, ret, outcome, fault, ran, all_results, qScans, qAdv, stuck>>
    /\ UNCHANGED <<sel, ex, q, page_no, prev_sig, seen, round, last_height, grew>>

\* await SearchHandler().run_search(page, search_box);
\* return await SearchExtractor().extract(page)
EngineSearch ==
    /\ pc = "e_search"
    /\ \E p \in Pages, result \in engine_SearchResults, raises \in BOOLEAN :
          IF raises THEN engine_Raise("SearchHandler.run_search")
          ELSE engine_Return("search", result, p)
    /\ UNCHANGED <<sel, ex, q, page_no, prev_sig, seen, round, last_height, grew>>

\* next_btn = page.locator(...); if await next_btn.count() > 0
EngineNextProbe ==
    /\ pc = "e_next"
    /\ \E found \in BOOLEAN, raises \in BOOLEAN :
          IF raises THEN engine_Raise("count")
          ELSE /\ pc' = IF found THEN "e_pg_scan" ELSE "e_scroll"
               /\ probe' = [probe EXCEPT !.next = IF found THEN "found" ELSE "none"]
               /\ obs' = [op |-> "count"]
               /\ UNCHANGED <<page, ret, outcome, fault, ran, all_results, qScans, qAdv, stuck>>
    /\ UNCHANGED <<sel, ex, q, page_no, prev_sig, seen, round, last_height, grew>>

\* PaginationExtractor.extract: all_jobs.extend(await direct.extract(page))
EnginePaginationScan ==
    /\ pc = "e_pg_scan"
    /\ \E raises \in BOOLEAN :
          IF raises THEN engine_Raise("inner_text")
          ELSE /\ pc' = "e_pg_count"
               /\ all_results' = all_results \o engine_DirectExtractor_extract(page)
               /\ qScans' = qScans + 1
               /\ stuck' = IF stuck \in {1, 2} THEN stuck + 1 ELSE stuck
               /\ obs' = [op |-> "DirectExtractor.extract"]
               /\ UNCHANGED <<page, ret, outcome, fault, ran, probe, qAdv>>
    /\ UNCHANGED <<sel, ex, q, page_no, prev_sig, seen, round, last_height, grew>>

\* PaginationExtractor.extract: if await next_btn.count() == 0: break, and
\* return all_jobs, which UniversalExtractor.extract returns
EnginePaginationCount ==
    /\ pc = "e_pg_count"
    /\ \E count \in 0..1, raises \in BOOLEAN :
          IF raises THEN engine_Raise("count")
          ELSE IF count = 0
          THEN engine_Return("pagination", all_results, page)
          ELSE /\ pc' = "e_pg_click"
               /\ obs' = [op |-> "count"]
               /\ UNCHANGED <<page, ret, outcome, fault, ran, probe, all_results, qScans, qAdv, stuck>>
    /\ UNCHANGED <<sel, ex, q, page_no, prev_sig, seen, round, last_height, grew>>

\* PaginationExtractor.extract: await next_btn.first.click();
\* await page.wait_for_load_state("networkidle")
EnginePaginationClick ==
    /\ pc = "e_pg_click"
    /\ qAdv < MaxEngineClicks
    /\ \E p \in Pages, raises \in BOOLEAN :
          IF raises THEN engine_Raise("click")
          ELSE /\ pc' = "e_pg_scan"
               /\ page' = p
               /\ qAdv' = qAdv + 1
               /\ stuck' = IF p # page THEN 0 ELSE IF stuck = 0 THEN 1 ELSE stuck
               /\ obs' = [op |-> "click", changed |-> p # page]
               /\ UNCHANGED <<ret, outcome, fault, ran, probe, all_results, qScans>>
    /\ UNCHANGED <<sel, ex, q, page_no, prev_sig, seen, round, last_height, grew>>

\* sc_res = await ScrollExtractor().extract(page); if sc_res: return sc_res
\* (the scroll rounds leave any page, which DirectExtractor then scans)
EngineScroll ==
    /\ pc = "e_scroll"
    /\ \E p \in Pages, raises \in BOOLEAN :
          IF raises THEN engine_Raise("evaluate")
          ELSE IF engine_DirectExtractor_extract(p) # <<>>
          THEN engine_Return("scroll", engine_DirectExtractor_extract(p), p)
          ELSE /\ pc' = "e_direct"
               /\ page' = p
               /\ ran' = Append(ran, [strategy |-> "scroll", result |-> <<>>])
               /\ obs' = [op |-> "scroll"]
               /\ UNCHANGED <<ret, outcome, fault, probe, all_results, qScans, qAdv, stuck>>
    /\ UNCHANGED <<sel, ex, q, page_no, prev_sig, seen, round, last_height, grew>>

\* return await DirectExtractor().extract(page)
EngineDirect ==
    /\ pc = "e_direct"
    /\ \E raises \in BOOLEAN :
          IF raises THEN engine_Raise("inner_text")
          ELSE engine_Return("direct", engine_DirectExtractor_extract(page), page)
    /\ UNCHANGED <<sel, ex, q, page_no, prev_sig, seen, round, last_height, grew>>

NextEngine ==
    \/ EngineLocation
    \/ EngineRole
    \/ EngineSearchBox
    \/ EngineSearch
    \/ EngineNextProbe
    \/ EnginePaginationScan
    \/ EnginePaginationCount
    \/ EnginePaginationClick
    \/ EngineScroll
    \/ EngineDirect

SpecEngine == InitEngine /\ [][NextEngine]_vars

\* C33: a search or pagination strategy of the engine's UniversalExtractor.extract
\* that returned an empty list is followed by the scroll or the direct
\* strategy before extract returns
C33_EmptyStrategyFallsThrough ==
    outcome = "returned" =>
        \A i \in DOMAIN ran :
            (ran[i].strategy \in {"search", "pagination"} /\ ran[i].result = <<>>)
                => \E j \in DOMAIN ran : j > i /\ ran[j].strategy \in {"scroll", "direct"}

\* C34: in the engine's PaginationExtractor.extract, once a click on Next
\* has left the page as it was and that page has been scanned again, the
\* loop ends: the test of the Next button that follows does not lead to
\* another click
C34_UnchangedClickEndsLoop ==
    [][(pc = "e_pg_count" /\ stuck = 2 /\ outcome' # "raised") => pc' = "done"]_vars

(***************************************************************************)
(* Properties of UniversalExtractor.extract                                *)
(***************************************************************************)
StrategyOrder == <<"search", "pagination", "scroll", "direct">>

Rank(strategy) == CHOOSE i \in DOMAIN StrategyOrder : StrategyOrder[i] = strategy

\* no two entries of jobs have the same url
NoDup(jobs) == \A i, j \in DOMAIN jobs : jobs[i].url = jobs[j].url => i = j

\* C1: the strategies that ran did so in the order Search, Pagination,
\* Scroll, direct scan, each at most once; every strategy that ran before
\* another one returned the empty list (so nothing runs after a non-empty
\* result); and what extract returns is exactly the result of the last
\* strategy that ran, which is non-empty unless it is the direct scan
C1_StrictPriorityChain ==
    /\ \A i, j \in DOMAIN ran :
          i < j => /\ Rank(ran[i].strategy) < Rank(ran[j].strategy)
                   /\ ran[i].result = <<>>
    /\ outcome = "returned" =>
          /\ ran # <<>>
          /\ ret = ran[Len(ran)].result
          /\ ret # <<>> \/ ran[Len(ran)].strategy = "direct"
    /\ outcome # "returned" => \A i \in DOMAIN ran : ran[i].result = <<>>

\* Search ran and returned nothing, Pagination ran after it and its
\* non-empty result was returned
C1_Witness ==
    /\ outcome = "returned"
    /\ Len(ran) = 2
    /\ ran[1].strategy = "search"
    /\ ran[2].strategy = "pagination"
    /\ Len(ret) >= 2

\* C2: no list that a DirectExtractor, SearchExtractor,
\* PaginationExtractor, ScrollExtractor or UniversalExtractor returned,
\* and no list under accumulation, holds the same url twice
C2_UniqueUrls ==
    /\ NoDup(ret)
    /\ NoDup(all_results)
    /\ \A i \in DOMAIN ran : NoDup(ran[i].result)
    /\ \A b \in BadSets : NoDup(ScanTable[page][b])

\* the second phrase or a later one is on a page with two anchors of one
\* posting, and two postings have been accumulated over several pages
C2_Witness ==
    /\ ex = "search"
    /\ pc = "has_next"
    /\ q >= 2
    /\ qScans >= 2
    /\ page.dom = 1
    /\ Len(all_results) = 2

\* C3: after a Next click that left the page URL and the result
\* Signature as they were, and while the page stays as it is, the loop
\* scans at most once more: a second further scan means the no-advance
\* was not taken as the end of results
C3_NoAdvanceEndsLoop == stuck < 3

\* the pcs inside the while loops
LoopPcs == {"scan", "has_next", "click_next", "has_numeric", "click_number"}

NothingToDrive ==
    /\ probe.box = "no"
    /\ probe.next = "no"
    /\ probe.numeric = "no"
    /\ ~grew

\* the lists a direct scan of the page can give
DirectResults == {s.jobs : s \in {o \in ScanOutcomes[page] : ~o.raised}}

\* C5: with no search box, no Next button, no numbered pagination and no
\* growth under scrolling, extract ends by returning the result of a
\* direct scan of the page, possibly empty, and does not raise
C5_FallsThroughToDirectScan ==
    (pc = "done" /\ NothingToDrive) =>
        /\ outcome = "returned"
        /\ ran # <<>>
        /\ ran[Len(ran)].strategy \in {"scroll", "direct"}
        /\ \A i \in DOMAIN ran : ran[i].strategy \in {"scroll", "direct"}
        /\ ret \in DirectResults

\* C6: no exception of a page operation leaves extract
C6_NoErrorOutcome == outcome # "raised"

\* is x an entry of the sequence seq
Has(seq, x) == \E i \in DOMAIN seq : seq[i] = x

\* C9: a call of select_us_from_input whose suggestion list showed no
\* "United States" option pressed no submit key, clicked no Apply-style
\* button and reported failure
C9_NoBlindSubmit ==
    obs.op = "apply_location_filter" =>
        \A i \in DOMAIN obs.calls :
            obs.calls[i].sugg = "nomatch" =>
                /\ ~Has(obs.calls[i].log, "enter")
                /\ ~Has(obs.calls[i].log, "apply")
                /\ obs.calls[i].ret = "false"

\* the selection action of the tier completed: a "United States"
\* suggestion clicked, a submit key pressed when no suggestion list came
\* up, a "United States" label or checkbox clicked or checked, a select
\* option chosen
SelectionCompleted ==
    \/ \E i \in DOMAIN obs.calls :
          \/ Has(obs.calls[i].log, "click_us")
          \/ obs.calls[i].sugg = "timeout" /\ Has(obs.calls[i].log, "enter")
    \/ \E act \in {"click_label", "check_box", "select_label", "select_value"} :
          Has(obs.acts, act)

\* C10: apply_location_filter returns True exactly when the selection
\* action of the tier it returns from completed, and False otherwise
C10_TrueIffTierSucceeded ==
    obs.op = "apply_location_filter" =>
        /\ obs.ret = "true" => SelectionCompleted
        /\ obs.ret = "false" => ~SelectionCompleted

\* the anchors a scan with read failures at bad can turn into a job, as
\* positions in the scanned locator
Candidates(pg, bad) ==
    LET dom   == PageDom(pg)
        links == ScanLinks(dom)
    IN  {i \in DOMAIN links :
            /\ links[i] \notin bad
            /\ Strip(dom[links[i]].text) # <<>>
            /\ dom[links[i]].href # <<>>
            /\ is_swe_role(Strip(dom[links[i]].text))
            /\ normalize_href(PageUrl(pg), dom[links[i]].href) # None}

\* the url and the title of the anchor at position i of the scanned locator
CandidateJob(pg, i) ==
    LET a == PageDom(pg)[ScanLinks(PageDom(pg))[i]]
    IN  [title |-> Strip(a.text), url |-> normalize_href(PageUrl(pg), a.href)]

\* a direct scan has one entry for each url of a candidate anchor, with
\* the title of the first candidate anchor of that url
ScanKeepsFirstSeen(pg, bad) ==
    LET jobs == ScanTable[pg][bad]
        cand == Candidates(pg, bad)
    IN  /\ NoDup(jobs)
        /\ Urls(jobs) = {CandidateJob(pg, i).url : i \in cand}
        /\ \A j \in DOMAIN jobs :
              \E i \in cand :
                  /\ CandidateJob(pg, i) = jobs[j]
                  /\ \A k \in cand : k < i => CandidateJob(pg, k).url # jobs[j].url

\* over the scans that return
ScansKeepFirstSeen ==
    \A pg \in Pages : \A bad \in {c \in BadSets : ~ScanRaises(pg, c)} :
        ScanKeepsFirstSeen(pg, bad)

\* C11: every direct scan has exactly one entry per url, titled by the
\* first anchor of that url; and while a loop of SearchExtractor or
\* PaginationExtractor runs, over pages and phrases, every entry of the
\* accumulated list stays as it is (url and title), the list has one
\* entry per url, and a scan adds exactly the urls it found that were
\* not there, each with the title the scan gave it
C11_FirstSeenTitleWins ==
    [][/\ ScansKeepFirstSeen
       /\ (ex # "none" /\ ex' = ex) =>
             /\ Len(all_results') >= Len(all_results)
             /\ SubSeq(all_results', 1, Len(all_results)) = all_results
             /\ NoDup(all_results')
       /\ (pc = "scan" /\ pc' # "done") =>
             \E s \in ScanOutcomes[page] :
                 /\ ~s.raised
                 /\ Urls(all_results') = Urls(all_results) \cup Urls(s.jobs)
                 /\ \A i \in DOMAIN all_results' :
                       i > Len(all_results) => \E j \in DOMAIN s.jobs : s.jobs[j] = all_results'[i]
      ]_vars

\* in the second phrase or later, the page scanned shows under another
\* title a posting accumulated before; the first title is still there
C11_Witness ==
    /\ ex = "search"
    /\ pc = "has_next"
    /\ q >= 2
    /\ Len(all_results) >= 2
    /\ \E b \in BadSets : \E j \in DOMAIN ScanTable[page][b] :
          /\ ScanTable[page][b][j].url = all_results[1].url
          /\ ScanTable[page][b][j].title # all_results[1].title

\* the call of click_next observed, had the network gone idle
SameCallWhenIdle ==
    LET a == obs.a
        i == [a EXCEPT !.idle = "idle"]
    IN  \E pg \in Pages :
            /\ PageUrl(pg) = obs.old_url
            /\ LET r == click_next(pg, obs.prev_signature, i)
               IN  /\ r.raised = obs.raised
                   /\ r.ok = obs.ok
                   /\ r.sig = obs.sig
                   /\ r.clicked = obs.clicked
                   /\ r.page = page

\* C12: safe_networkidle returns for every way the wait can end, and a
\* call of click_next ends the same way (raised or not, same result,
\* same page) whether its wait went idle, timed out or failed
C12_NetworkIdleNeverRaises ==
    /\ \A answer \in WaitAnswers : safe_networkidle(answer) = "returned"
    /\ obs.op = "click_next" => (obs.clicked => ~obs.raised) /\ SameCallWhenIdle

\* a call of click_next clicked, its wait for network idle failed with an
\* error other than the timeout, and the call reported an advance
C12_Witness ==
    /\ obs.op = "click_next"
    /\ obs.clicked
    /\ obs.a.idle = "error"
    /\ obs.ok

\* C13: is_swe_role is true only for a text with a role token and a
\* domain token, and false for an empty text and for a text shorter than
\* 3 characters after trimming
C13_TrueOnlyWithRoleAndDomain ==
    obs.op = "is_swe_role" =>
        /\ obs.is_swe => \E k \in DOMAIN ROLE_WORDS : has_token(obs.text, ROLE_WORDS[k])
        /\ obs.is_swe => \E k \in DOMAIN DOMAIN_WORDS : has_token(obs.text, DOMAIN_WORDS[k])
        /\ (obs.text = <<>> \/ Len(Strip(obs.text)) < 3) => ~obs.is_swe

\* "Engineer" has the role token engineer and no domain token: not a
\* software role
C13_Witness ==
    /\ obs.op = "is_swe_role"
    /\ obs.text = <<"E","n","g","i","n","e","e","r">>
    /\ obs.token = <<"e","n","g","i","n","e","e","r">>
    /\ obs.has
    /\ ~obs.is_swe

\* the same letter, in either case
SameLetter(c, d) == c = d \/ \E n \in 1..26 : {c, d} = {UpperChars[n], LowerChars[n]}

\* token occurs in text at position i, case ignored
SubstringAt(text, token, i) ==
    /\ i + Len(token) - 1 <= Len(text)
    /\ \A k \in 1..Len(token) : SameLetter(text[i + k - 1], token[k])

\* token occurs in text at position i with no word character next to it
WholeWordAt(text, token, i) ==
    /\ SubstringAt(text, token, i)
    /\ i = 1 \/ ~IsWordChar(text[i - 1])
    /\ i + Len(token) > Len(text) \/ ~IsWordChar(text[i + Len(token)])

\* C14: _has_token ignores case; a token with a space or a hyphen and the
\* tokens c#, .net, dotnet, csharp match wherever they occur, every other
\* token only as a whole word; is_swe_role is true for "Software
\* Engineer", "C# Developer", "Platform SDE" and false for "Senior
\* Designer", "engineering manager"
C14_TokenRulePerClass ==
    obs.op = "is_swe_role" =>
        /\ IF \/ obs.token \in SpecialTokens
              \/ " " \in Range(obs.token)
              \/ "-" \in Range(obs.token)
           THEN obs.has = \E i \in 1..Len(obs.text) : SubstringAt(obs.text, obs.token, i)
           ELSE obs.has = \E i \in 1..Len(obs.text) : WholeWordAt(obs.text, obs.token, i)
        /\ obs.text \in {<<"S","o","f","t","w","a","r","e"," ","E","n","g","i","n","e","e","r">>,
                          <<"C","#"," ","D","e","v","e","l","o","p","e","r">>,
                          <<"P","l","a","t","f","o","r","m"," ","S","D","E">>} => obs.is_swe
        /\ obs.text \in {<<"S","e","n","i","o","r"," ","D","e","s","i","g","n","e","r">>,
                          <<"e","n","g","i","n","e","e","r","i","n","g"," ","m","a","n","a","g","e","r">>} => ~obs.is_swe

\* engineer occurs in "engineering manager", not as a whole word
C14_Witness ==
    /\ obs.op = "is_swe_role"
    /\ obs.text = <<"e","n","g","i","n","e","e","r","i","n","g"," ","m","a","n","a","g","e","r">>
    /\ obs.token = <<"e","n","g","i","n","e","e","r">>
    /\ \E i \in 1..Len(obs.text) : SubstringAt(obs.text, obs.token, i)
    /\ ~obs.has
    /\ ~obs.is_swe

\* the hrefs that are no link to a page: empty, or after trimming and
\* ignoring case a fragment, javascript:, mailto: or tel: reference
JunkHref(href) ==
    \/ href = <<>>
    \/ \E prefix \in {<<"#">>, <<"j","a","v","a","s","c","r","i","p","t",":">>,
                       <<"m","a","i","l","t","o",":">>, <<"t","e","l",":">>} :
          StartsWith(Lower(Strip(href)), prefix)

\* C15: normalize_href returns None exactly for the empty href and the
\* hrefs that after trimming, case ignored, start with "#", "javascript:",
\* "mailto:" or "tel:"; for every other href it returns a URL
C15_NullExactlyForJunk ==
    obs.op = "normalize_href" =>
        /\ obs.ret = None <=> JunkHref(obs.href)
        /\ ~JunkHref(obs.href) => obs.ret # ValueError

\* C16: a URL returned by normalize_href has no fragment, and
\* normalize_href returns it unchanged, whatever the base
C16_IdempotentAndFragmentFree ==
    (obs.op = "normalize_href" /\ obs.ret \notin {None, ValueError}) =>
        /\ "#" \notin Range(obs.ret)
        /\ obs.again = obs.ret

\* scroll_full_page does at most max_rounds rounds, and goes on to another
\* round only after a round that measured a new height and scrolled
ScrollRoundsBounded ==
    /\ round' <= MaxRounds
    /\ (pc = "scroll" /\ pc' = "scroll") =>
          /\ round' = round + 1
          /\ last_height' # last_height

\* C17: scroll_full_page does at most 25 rounds and stops at the first
\* round that measures the height of the round before (or whose
\* measurement or scroll fails); ScrollExtractor.extract then does one
\* direct scan of the page and returns its result
C17_ScrollEndsInOneScan ==
    [][/\ ScrollRoundsBounded
       /\ pc = "scroll" => pc' \in {"scroll", "sc_scan"}
       /\ pc = "sc_scan" =>
             /\ Len(ran') = Len(ran) + 1
             /\ ran'[Len(ran')].strategy = "scroll"
             /\ ran'[Len(ran')].result \in DirectResults
      ]_vars

\* C18: click_next and click_next_page_number return "not advanced" and
\* do not raise when their control is absent and when the click on the
\* control they found fails; the page and the Signature the caller holds
\* stay as they were
C18_AbsentOrFailedClickIsNoAdvance ==
    /\ (obs.op = "click_next" /\ (obs.a.btn = "absent" \/ ~obs.a.click)) =>
          /\ ~obs.raised
          /\ ~obs.ok
          /\ obs.sig = obs.prev_signature
          /\ obs.new_url = obs.old_url
    /\ (obs.op = "click_next_page_number" /\ (obs.a.pager = "absent" \/ ~obs.a.click)) =>
          /\ ~obs.raised
          /\ ~obs.ok
          /\ obs.new_url = obs.old_url

\* the click on a numbered link that was found failed
C18_Witness ==
    /\ obs.op = "click_next_page_number"
    /\ obs.a.pager = "present"
    /\ TargetNumber(obs.a.cur, obs.a.links) = 2
    /\ ~obs.a.click
    /\ ~obs.ok
    /\ ~obs.raised

\* C20: click_next and click_next_page_number report an advance only for
\* a click after which the URL or the Signature differs from the one
\* before the click
C20_AdvanceOnlyOnChange ==
    /\ (obs.op = "click_next" /\ obs.ok) =>
          \/ obs.new_url # obs.old_url
          \/ obs.sig # obs.prev_signature
    /\ (obs.op = "click_next_page_number" /\ obs.ok) =>
          \/ obs.new_url # obs.old_url
          \/ obs.new_sig # obs.old_sig

\* C19: when the sub-loop of a query phrase starts (the phrase was
\* submitted and nothing is scanned yet), the page counter of
\* SearchExtractor is 1, however the sub-loop of the phrase before ended
C19_CounterResetPerPhrase ==
    (ex = "search" /\ pc = "scan" /\ qScans = 0) => page_no = 1

\* the numbers on the links of the pager the call met
LinkNumbers == {obs.a.links[i] : i \in DOMAIN obs.a.links} \cap Nat

\* the current page: the number of the aria-current element, else the
\* lowest number on a link (0 stands for none when there is no number)
CurrentNumber ==
    IF obs.a.cur \in Nat THEN obs.a.cur
    ELSE IF LinkNumbers = {} THEN 0
    ELSE CHOOSE m \in LinkNumbers : \A k \in LinkNumbers : m <= k

\* C21: click_next_page_number clicks the link numbered current + 1,
\* where current is the number of the aria-current element or else the
\* lowest link number, and nothing else; without numbered links, or
\* without a link numbered current + 1, it clicks nothing and returns
\* False
C21_ClicksCurrentPlusOne ==
    (obs.op = "click_next_page_number" /\ ~obs.raised) =>
        /\ obs.clicked # 0 => obs.clicked = CurrentNumber + 1 /\ obs.clicked \in LinkNumbers
        /\ (LinkNumbers = {} \/ CurrentNumber + 1 \notin LinkNumbers) =>
              obs.clicked = 0 /\ ~obs.ok
        /\ (obs.a.pager = "present" /\ CurrentNumber + 1 \in LinkNumbers /\ obs.a.click) =>
              obs.clicked = CurrentNumber + 1

\* no aria-current number, links 1 and 3 and no link 2: nothing clicked
C21_Witness ==
    /\ obs.op = "click_next_page_number"
    /\ obs.a.pager = "present"
    /\ obs.a.cur = -1
    /\ LinkNumbers = {1, 3}
    /\ obs.clicked = 0
    /\ ~obs.ok

\* C22: in an iteration of the loops of SearchExtractor and
\* PaginationExtractor the Next button is asked for first, right after
\* the scan; the numbered pages are asked for only after the Next button
\* was not there or its click did not advance; and an advance by either
\* ends the iteration, so that no iteration advances twice
C22_NextBeforeNumbered ==
    [][/\ (pc' = "has_next" /\ pc # "has_next") => pc = "scan"
       /\ (pc' = "click_next" /\ pc # "click_next") => pc = "has_next"
       /\ (pc' = "has_numeric" /\ pc # "has_numeric") =>
             \/ pc = "has_next"
             \/ pc = "click_next" /\ obs'.op = "advance" /\ ~obs'.ok
       /\ (pc' = "click_number" /\ pc # "click_number") => pc = "has_numeric"
       /\ (pc \in {"click_next", "click_number"} /\ obs'.op = "advance") =>
             (obs'.ok <=> pc' = "scan")
      ]_vars

\* the Next button was clicked without an advance and the numbered pages
\* then advanced, in the loop of PaginationExtractor
C22_Witness ==
    /\ ex = "pagination"
    /\ pc = "scan"
    /\ obs.op = "advance"
    /\ obs.by = "click_next_page_number"
    /\ obs.ok
    /\ stuck = 1

\* strategy has been entered: it is running or it has returned
Attempted(strategy) ==
    \/ \E i \in DOMAIN ran : ran[i].strategy = strategy
    \/ strategy = "search" /\ (ex = "search" \/ pc = "s_find_search_box")
    \/ strategy = "pagination" /\ (ex = "pagination" \/ pc = "p_start")
    \/ strategy = "scroll" /\ pc \in {"scroll", "sc_scan"}
    \/ strategy = "direct" /\ pc = "direct"

\* the results of the strategies that returned before strategy was entered
Earlier(strategy) ==
    {ran[i].result : i \in {j \in DOMAIN ran : Rank(ran[j].strategy) < Rank(strategy)}}

\* C23: Search is entered only after find_search_box found a box;
\* Pagination only after has_next_button or has_numeric_pagination said yes
\* and with no non-empty result of Search; Scroll only with no non-empty
\* result of Search or Pagination; the final direct scan only after Scroll
\* returned the empty list
C23_StepsOnlyWhenApplicable ==
    /\ Attempted("search") => probe.box = "yes"
    /\ Attempted("pagination") =>
          /\ probe.next = "yes" \/ probe.numeric = "yes"
          /\ Earlier("pagination") \subseteq {<<>>}
          /\ probe.box = "no" \/ \E i \in DOMAIN ran : ran[i].strategy = "search"
    /\ Attempted("scroll") => Earlier("scroll") \subseteq {<<>>}
    /\ Attempted("direct") =>
          \E i \in DOMAIN ran : ran[i].strategy = "scroll" /\ ran[i].result = <<>>

\* no search box, no Next button, numbered pagination: Pagination ran and
\* returned nothing, then Scroll, then the direct scan
C23_Witness ==
    /\ outcome = "returned"
    /\ probe = [box |-> "no", next |-> "no", numeric |-> "yes"]
    /\ Len(ran) = 3
    /\ ran[1].strategy = "pagination"
    /\ ran[3].strategy = "direct"

\* the positions of extract inside apply_location_filter
LocationTiers == {"loc_label", "loc_input", "loc_checkbox", "loc_widget", "loc_select"}

\* nothing of extract after apply_location_filter has happened
NothingAttempted ==
    /\ probe = [box |-> "unasked", next |-> "unasked", numeric |-> "unasked"]
    /\ ran = <<>>
    /\ ex = "none"
    /\ outcome = "running"

\* C24: apply_location_filter runs once, at the start of extract: while it
\* runs, and when it has returned, no probe has been asked and no strategy
\* entered, and it has returned exactly when extract is at the search-box
\* probe; what it returned does not steer extract: after True as after
\* False the next step is the search-box probe, which can find a box, find
\* none or raise, and no other step is possible
C24_LocationFilterOnceAndIgnored ==
    /\ pc \in LocationTiers => NothingAttempted
    /\ obs.op = "apply_location_filter" =>
          /\ NothingAttempted
          /\ obs.ret \in {"true", "false"} <=> pc = "u_find_search_box"
          /\ obs.ret = "pending" <=> pc \in LocationTiers
    /\ pc = "u_find_search_box" =>
          /\ obs.op = "apply_location_filter"
          /\ ENABLED (Next /\ probe'.box = "yes" /\ pc' = "s_find_search_box")
          /\ ENABLED (Next /\ probe'.box = "no" /\ pc' = "u_has_next")
          /\ ENABLED (Next /\ fault' = "find_search_box")
          /\ ~ ENABLED (Next /\ probe'.box = "unasked" /\ fault' # "find_search_box")

\* apply_location_filter has returned True and extract is about to probe
\* for the search box
C24_Witness ==
    /\ pc = "u_find_search_box"
    /\ obs.op = "apply_location_filter"
    /\ obs.ret = "true"

\* the tiers of apply_location_filter in the order it tries them
TierOrder == <<"loc_label", "loc_input", "loc_checkbox", "loc_widget", "loc_select">>

TierRank(tier) == CHOOSE i \in DOMAIN TierOrder : TierOrder[i] = tier

\* the tier of obs clicked, typed into or selected its candidate
Touched ==
    \/ obs.calls # <<>>
    \/ \E act \in {"open_widget", "click_label", "check_box", "select_label", "select_value"} :
          Has(obs.acts, act)

\* C25: the tiers that have found a visible candidate are not later than
\* the tier apply_location_filter is at, and a tier that comes after one
\* that found a visible candidate clicks, types into and selects nothing
C25_StopsAtFirstVisibleTier ==
    obs.op = "apply_location_filter" =>
        /\ \A t \in obs.found : TierRank(t) <= TierRank(obs.tier)
        /\ (\E t \in obs.found : TierRank(t) < TierRank(obs.tier)) => ~Touched

\* C26: the phrases are attempted in list order, each at most once: the
\* index q of the phrase only goes up, by one, and extract is at a
\* submission with a new phrase each time; a submission that returned False
\* or raised goes on to the next phrase; and SearchExtractor.extract does
\* not end while phrases remain
C26_EveryPhraseOnceInOrder ==
    [][/\ (ex = "search" /\ ex' = "search") => q' \in {q, q + 1}
       /\ (pc = "s_submit" /\ pc' = "s_submit") => q' = q + 1
       /\ (pc # "s_submit" /\ pc' = "s_submit") => q' = q + 1
       /\ (ex = "search" /\ ex' = "search" /\ pc' # "s_submit") => q' = q
       /\ (ex = "search" /\ ex' # "search") => q > NumQueries
       /\ (ex = "search" /\ pc' = "done") => q > NumQueries
      ]_vars

\* the place of a step inside one pass of the while loop, a scan being the
\* last step of the pass that began with the scan before it
LoopRank ==
    CASE pc = "has_next"     -> 0
      [] pc = "click_next"   -> 1
      [] pc = "has_numeric"  -> 2
      [] pc = "click_number" -> 3
      [] OTHER               -> 4

\* how far SearchExtractor.extract has come: the phrase, then the scans of
\* the phrase, then the place in the pass
SearchProgress ==
    IF pc = "s_submit" THEN 60 * q
    ELSE 60 * q + 5 * qScans + LoopRank + 1

\* a page operation failed outright: it neither completed nor timed out
PageOperationFailed == fault \in {"count", "wait_for_timeout", "find_search_box"}

\* C31: unless a page operation fails outright, every step of
\* SearchExtractor.extract is a step forward in a run of bounded length
\* with at most 10 scans in a phrase, no step raises, and the step that
\* leaves the for loop returns the accumulated list
C31_SearchAlwaysReturns ==
    [][(ex = "search" /\ ~PageOperationFailed') =>
          /\ outcome' # "raised"
          /\ qScans' <= 10
          /\ ex' = "search" =>
                /\ SearchProgress' > SearchProgress
                /\ SearchProgress' <= 60 * (NumQueries + 1)
          /\ ex' # "search" =>
                ran' = Append(ran, [strategy |-> "search", result |-> all_results])
      ]_vars

\* C32: in the loops of SearchExtractor and PaginationExtractor an advance
\* that succeeded leads to the top of the loop; the step taken there is a
\* direct scan of the page as it is, whose jobs are accumulated before
\* anything else happens (so in a phrase the pages scanned are the
\* advances plus one); and a step inside a loop leaves the entries
\* accumulated so far where they are, in their order
C32_AdvancedPageScannedAppendOnly ==
    [][/\ (pc \in {"click_next", "click_number"} /\ obs'.op = "advance" /\ obs'.ok) =>
             pc' = "scan"
       /\ (pc = "scan" /\ outcome' # "raised") =>
             /\ pc' \in {"has_next", "s_submit"}
             /\ page' = page
             /\ \E s \in ScanOutcomes[page] :
                   /\ ~s.raised
                   /\ all_results' = Accumulate(all_results, seen, s.jobs)
       /\ (ex' = "search" /\ pc' \in {"has_next", "click_next", "has_numeric", "click_number"}) =>
             qScans' = qAdv' + 1
       /\ (ex' = "search" /\ pc' = "scan") => qScans' = qAdv'
       /\ (ex # "none" /\ ex' = ex) =>
             /\ Len(all_results') >= Len(all_results)
             /\ \A i \in DOMAIN all_results : all_results'[i] = all_results[i]
      ]_vars

\* in a phrase of SearchExtractor one advance was made and the page it
\* led to has been scanned: two scans, and entries of both pages
C32_Witness ==
    /\ ex = "search"
    /\ pc = "has_next"
    /\ qAdv = 1
    /\ qScans = 2
    /\ Len(all_results) >= 2

ExactOptions ==
    {i \in DOMAIN obs.a.options :
        /\ obs.a.options[i] # "text_raises"
        /\ NormalizeText(OptionText(obs.a.options[i], obs.query)) = NormalizeText(obs.query)}

\* the suggestions the call clicked
ClickedOptions == {obs.log[i].option : i \in {j \in DOMAIN obs.log : obs.log[j].ev = "click"}}

\* C27: in a call of _type_prefix_search_and_submit that typed the prefix
\* and saw the suggestion list: when some suggestion equals the query in
\* normal form (and clicking works), such a suggestion was clicked; no
\* other suggestion was clicked; and when none was clicked (and typing and
\* Enter work) the whole query was typed and Enter pressed
C27_ExactSuggestionOrEnter ==
    (obs.op = "type_prefix_search_and_submit" /\ obs.a.type # "raises" /\ obs.a.shown) =>
        /\ (ExactOptions # {} /\ obs.a.click) => ClickedOptions # {}
        /\ ClickedOptions \subseteq ExactOptions
        /\ (ClickedOptions = {} /\ obs.a.rest # "raises" /\ obs.a.enter) =>
              /\ obs.typed = obs.query
              /\ obs.log # <<>>
              /\ obs.log[Len(obs.log)] = [ev |-> "enter", typed |-> obs.query, option |-> 0]

\* the Next control of the call is not visible, or its aria-disabled
\* attribute reads as true
NotClickable ==
    \/ obs.a.btn \in {"hidden", "visible_raises"}
    \/ obs.a.btn = "visible" /\ obs.a.aria \in {"true", "TRUE", "1"}

AnchorsWith(pat) ==
    {i \in DOMAIN PageDom(page) :
        PageDom(page)[i].hasHref /\ Contains(PageDom(page)[i].href, pat)}

AnchorsWithHref == {i \in DOMAIN PageDom(page) : PageDom(page)[i].hasHref}

\* the urls the anchors at the positions in S give: those whose reads
\* worked, with a non-empty trimmed text that is a role and an href that
\* normalize_href does not turn into None
UrlsOf(S) ==
    {normalize_href(PageUrl(page), PageDom(page)[i].href) :
        i \in {j \in S \ obs.bad :
                 /\ Strip(PageDom(page)[j].text) # <<>>
                 /\ PageDom(page)[j].href # <<>>
                 /\ is_swe_role(Strip(PageDom(page)[j].text))
                 /\ normalize_href(PageUrl(page), PageDom(page)[j].href) # None}}

Producers(url) ==
    {i \in AnchorsWithHref \ obs.bad :
        /\ Strip(PageDom(page)[i].text) # <<>>
        /\ is_swe_role(Strip(PageDom(page)[i].text))
        /\ normalize_href(PageUrl(page), PageDom(page)[i].href) = url}

\* the first of them in DOM order
FirstProducer(url) == CHOOSE i \in Producers(url) : \A j \in Producers(url) : i <= j

\* C30: every entry of a result of DirectExtractor.extract comes from an
\* anchor of the page: its title is the trimmed, non-empty text of the
\* anchor and a role, its url is what normalize_href gives for the page
\* URL and the anchor's href, not None and without a fragment; and the
\* entries stand in the DOM order of the first anchors that give their urls
C30_EntriesWellFormedInDomOrder ==
    (obs.op = "DirectExtractor.extract" /\ ~obs.raised) =>
        /\ \A k \in DOMAIN obs.jobs :
              /\ obs.jobs[k].title # <<>>
              /\ Strip(obs.jobs[k].title) = obs.jobs[k].title
              /\ is_swe_role(obs.jobs[k].title)
              /\ obs.jobs[k].url # None
              /\ obs.jobs[k].url # ValueError
              /\ "#" \notin Range(obs.jobs[k].url)
              /\ Producers(obs.jobs[k].url) # {}
              /\ obs.jobs[k].title = Strip(PageDom(page)[FirstProducer(obs.jobs[k].url)].text)
        /\ \A k, l \in DOMAIN obs.jobs :
              k < l => FirstProducer(obs.jobs[k].url) < FirstProducer(obs.jobs[l].url)

\* an entry that two anchors give, the second of them by an href with a
\* fragment and under another title
C30_Witness ==
    /\ obs.op = "DirectExtractor.extract"
    /\ ~obs.raised
    /\ \E k \in DOMAIN obs.jobs :
          /\ Cardinality(Producers(obs.jobs[k].url)) = 2
          /\ \E i \in Producers(obs.jobs[k].url) :
                /\ "#" \in Range(PageDom(page)[i].href)
                /\ Strip(PageDom(page)[i].text) # obs.jobs[k].title

\* C8: a call of click_next that clicked the Next control reports an
\* advance exactly when the page URL differs from the one before the
\* click or the Signature after the click differs from the one passed
\* in, an absent Signature differing from a present one
C8_AdvanceIffUrlOrSignatureChanged ==
    (obs.op = "click_next" /\ obs.clicked) =>
        (obs.ok <=> (PageUrl(page) # obs.old_url \/ obs.sig # obs.prev_signature))
=============================================================================
